---- MODULE Spec2Model ----
(***************************************************************************)
(* State machine of the websockettransceiver element                       *)
(* (src/src/gstwebsockettransceiver.c): the lifecycle thread, the          *)
(* WebSocket worker with its event-loop callbacks, the output pacer, the   *)
(* property setter and the sink event handler.  Every step is one critical *)
(* section (or one unlocked access) of the C code; the threads interleave  *)
(* between steps.                                                          *)
(***************************************************************************)
EXTENDS Integers, Sequences, FiniteSets, TLC

(* ------------------------------ bounds -------------------------------- *)
\* total number of inbound binary frames the remote sends
MaxFrames == 2
\* largest value max-queue-size is set to
MaxQueue == 2
\* largest value initial-buffer-count is set to
MaxInitBuf == 1
\* next_timestamp is followed up to MaxTs frame durations
MaxTs == 2
\* the value max-reconnects is set to
MaxAttempts == 2
\* the pipeline clock's reading when the pacer takes its base time
ClockNow == 1
\* with max-reconnects = 0 (unlimited) the attempts are followed up to MaxCount
MaxCount == 7
\* number of audio units upstream presents to the sink chain
MaxUnits == 2
\* an audio unit holds no byte or MaxSize bytes
MaxSize == 1

(* -------------------------- program constants ------------------------- *)
DEFAULT_SAMPLE_RATE == 16000
DEFAULT_CHANNELS == 1
DEFAULT_FRAME_DURATION_MS == 250
\* nanoseconds in a millisecond
GST_MSECOND == 1000000
DEFAULT_INITIAL_RECONNECT_DELAY_MS == 1000
DEFAULT_MAX_BACKOFF_MS == 30000

\* GST_CLOCK_TIME_NONE
NoTime == -1
\* the pacer's local "GstBuffer *buffer = NULL"
NoBuffer == [id |-> 0, pts |-> NoTime]
\* the sink chain holds no unit
NoUnit == [id |-> 0, size |-> 0, readable |-> FALSE]
\* no text frame and no frame of another type was delivered yet
NoMessage == [type |-> "NONE", wellformed |-> FALSE, root |-> "none", member |-> "absent"]

VARIABLES
  \* configuration (GObject properties)
  uri_set, max_queue_size, initial_buffer_count,
  reconnect_enabled, max_reconnects,
  initial_reconnect_delay_ms, max_backoff_ms,
  \* lifecycle thread: element state, position, last change_state result
  state, life_pc, change_ret,
  \* WebSocket worker
  ws_thread_running, ws_pc, loop, ws_conn, connected,
  reconnect_count, current_backoff_ms, flush_origin,
  \* receive queue: frame ids in arrival order; rx_count numbers the frames
  recv_queue, rx_count,
  \* timing state
  base_timestamp, next_timestamp, first_timestamp_set, need_segment,
  \* lifecycle flags
  eos_sent, caps_ready, output_thread_running,
  \* output pacer: position and locals
  out_pc, caps_pushed, segment_pushed, timing_initialized,
  initial_buffering, buffer,
  \* environment: pipeline clock, caps on the source pad, sink pad EOS
  clock, src_caps, sink_eos,
  \* sink chain: position, the unit it holds, its last result, the units
  \* presented so far, the frames handed to the connection, the units
  \* released unsent for want of a connection
  chain_pc, chain_buffer, chain_ret, tx_count, sent, tx_dropped,
  \* observers of the source port, and which of them are recorded
  observe, eos_count, seg_since_flush, stale_upto, last_pts, reset_by, gap_iters,
  \* the flushes completed, and the events they pushed on the source pad,
  \* since the last inbound frame or step of the pacer (quiet is -1 when
  \* that step fell into a flush still running)
  quiet, flush_log,
  \* the last inbound frame that was not a binary frame
  rx_msg,
  \* the binary frames enqueued since the receive queue was last empty, -1
  \* once a frame was dequeued from among them or max-queue-size was set
  run_len,
  \* the frames pushed on the source pad, in the order of the pushes, and the
  \* number of frames released unpushed
  pushed, dropped,
  \* the three mutexes: per thread the lock operations, flag accesses and
  \* pushes left of the code section it is in; the owner of every mutex;
  \* whether the process was aborted
  lk_run, lk_owner, lk_dead,
  \* the kinds of event and buffer the pacer has pushed on the source pad in
  \* the activation, in the order in which each kind was first pushed
  out_first,
  \* references to connection objects: the reference count of the object
  \* ws_conn points to, which object the chain function's local handle
  \* points to ("current": the one ws_conn points to, "old": one the worker
  \* has torn down), and the reference count of that old object
  handle_refs, chain_handle, old_refs,
  \* audio parameters: the properties sample-rate, channels and
  \* frame-duration-ms with what sink_setcaps derives from the caps;
  \* frame_duration_ns is the element's field frame_duration
  sample_rate, channels, bytes_per_sample, frame_duration_ms,
  frame_size_bytes, frame_duration_ns

config == <<uri_set, max_queue_size, initial_buffer_count,
            reconnect_enabled, max_reconnects,
            initial_reconnect_delay_ms, max_backoff_ms>>
lifev == <<state, life_pc, change_ret>>
wsv == <<ws_thread_running, ws_pc, loop, ws_conn, connected,
         reconnect_count, current_backoff_ms, flush_origin>>
queuev == <<recv_queue, rx_count>>
timingv == <<base_timestamp, next_timestamp, first_timestamp_set, need_segment>>
flagv == <<eos_sent, caps_ready, output_thread_running>>
outv == <<out_pc, caps_pushed, segment_pushed, timing_initialized,
          initial_buffering, buffer>>
envv == <<clock, src_caps, sink_eos>>
chainv == <<chain_pc, chain_buffer, chain_ret, tx_count, sent, tx_dropped>>
flushv == <<quiet, flush_log>>
histv == <<rx_msg, run_len, pushed, dropped>>
obsv == <<observe, eos_count, seg_since_flush, stale_upto, last_pts, reset_by, gap_iters,
          flushv, histv>>
lockv == <<lk_run, lk_owner, lk_dead>>
refv == <<handle_refs, chain_handle, old_refs>>
audiov == <<sample_rate, channels, bytes_per_sample, frame_duration_ms,
            frame_size_bytes, frame_duration_ns>>
vars == <<config, lifev, wsv, queuev, timingv, flagv, outv, envv, chainv, obsv,
          lockv, out_first, refv, audiov>>

\* the threads that run the element's code: the application's thread in
\* change_state and set_property, the WebSocket worker, the output pacer,
\* and upstream's streaming thread in chain and in the sink event handler
Threads == {"application", "worker", "pacer", "streaming"}

Locks == {"state_lock", "queue_lock", "output_lock"}

frame_duration == DEFAULT_FRAME_DURATION_MS

Min(a, b) == IF a < b THEN a ELSE b

Max(a, b) == IF a > b THEN a ELSE b

\* the value an observer takes: new when it is recorded, else unchanged
Rec(o, new, old) == IF o \in observe THEN new ELSE old

\* g_object_unref on an object with n references
Unref(n) == IF n > 0 THEN n - 1 ELSE 0

\* the pacer pushes an event or buffer of kind k on the source pad
NoteFirst(k) ==
  out_first' =
    Rec("order",
        IF \E i \in 1..Len(out_first) : out_first[i] = k
          THEN out_first ELSE Append(out_first, k),
        out_first)

\* an inbound frame or a step of the pacer: the run of consecutive flushes
\* is over
Disturb ==
  /\ quiet' = IF "quiet" \in observe
                   /\ ws_pc \in {"f_drain", "f_reset", "f_events", "f_seg"}
                THEN -1 ELSE 0
  /\ flush_log' = <<>>

\* flush_queue is entered: it is the second of a run when one flush has
\* completed with nothing since, else a new run begins
FlushBegin ==
  IF quiet = 1
    THEN UNCHANGED flushv
    ELSE quiet' = 0 /\ flush_log' = <<>>

\* the observers a flush leaves alone when it begins
ObsButFlush ==
  <<observe, eos_count, seg_since_flush, stale_upto, last_pts, reset_by,
    gap_iters, histv>>

(* the element after gst_websocket_transceiver_init and the application's  *)
(* property settings made before the first state change, with the given    *)
(* initial-reconnect-delay-ms, max-backoff-ms and max-reconnects            *)
InitElementWith(delay, maxb, maxrec) ==
  /\ uri_set \in BOOLEAN
  /\ max_queue_size \in 1..MaxQueue
  /\ initial_buffer_count \in 0..MaxInitBuf
  /\ reconnect_enabled \in BOOLEAN
  /\ max_reconnects = maxrec
  /\ initial_reconnect_delay_ms = delay
  /\ max_backoff_ms = maxb
  /\ state = "NULL" /\ life_pc = "idle" /\ change_ret = "none"
  /\ ws_thread_running = FALSE /\ ws_pc = "off" /\ loop = "none"
  /\ ws_conn = FALSE /\ connected = FALSE
  /\ reconnect_count = 0 /\ current_backoff_ms = 0 /\ flush_origin = "none"
  /\ recv_queue = <<>> /\ rx_count = 0
  /\ base_timestamp = NoTime /\ next_timestamp = 0
  /\ first_timestamp_set = FALSE /\ need_segment = FALSE
  /\ eos_sent = FALSE /\ caps_ready = FALSE /\ output_thread_running = FALSE
  /\ out_pc = "off" /\ caps_pushed = FALSE /\ segment_pushed = FALSE
  /\ timing_initialized = FALSE /\ initial_buffering = FALSE
  /\ buffer = NoBuffer
  /\ clock = FALSE /\ src_caps = FALSE /\ sink_eos = FALSE
  /\ chain_pc = "idle" /\ chain_buffer = NoUnit /\ chain_ret = "none"
  /\ tx_count = 0 /\ sent = <<>> /\ tx_dropped = 0
  /\ eos_count = 0 /\ seg_since_flush = TRUE /\ stale_upto = 0
  /\ last_pts = NoTime /\ reset_by = "none" /\ gap_iters = 0
  /\ quiet = 0 /\ flush_log = <<>> /\ rx_msg = NoMessage /\ run_len = 0
  /\ pushed = <<>> /\ dropped = 0
  /\ lk_run = [t \in Threads |-> <<>>]
  /\ lk_owner = [l \in Locks |-> "none"]
  /\ lk_dead = FALSE
  /\ out_first = <<>>
  /\ handle_refs = 0 /\ chain_handle = "none" /\ old_refs = 0
  /\ sample_rate = DEFAULT_SAMPLE_RATE /\ channels = DEFAULT_CHANNELS
  /\ bytes_per_sample = 0 /\ frame_duration_ms = DEFAULT_FRAME_DURATION_MS
  /\ frame_size_bytes = 0
  /\ frame_duration_ns = DEFAULT_FRAME_DURATION_MS * GST_MSECOND

\* the element with the default reconnect delays and max-reconnects = MaxAttempts
InitElement ==
  InitElementWith(DEFAULT_INITIAL_RECONNECT_DELAY_MS, DEFAULT_MAX_BACKOFF_MS,
                  MaxAttempts)

(* ----------------------------- properties ----------------------------- *)
\* set_property(PROP_MAX_QUEUE_SIZE): stores the value, touches nothing else
SetMaxQueueSize(v) ==
  /\ max_queue_size' = v
  /\ UNCHANGED recv_queue

SetProperty ==
  /\ life_pc # "aborted"
  /\ \E v \in 1..MaxQueue : v # max_queue_size /\ SetMaxQueueSize(v)
  /\ run_len' = Rec("run", IF recv_queue = <<>> THEN run_len ELSE -1, run_len)
  /\ UNCHANGED <<lockv, audiov, out_first, refv, chainv, uri_set, initial_buffer_count, reconnect_enabled, max_reconnects,
                 initial_reconnect_delay_ms, max_backoff_ms, lifev, wsv, rx_count, timingv, flagv, outv, envv, observe, eos_count, seg_since_flush, stale_upto,
                 last_pts, reset_by, gap_iters, flushv, rx_msg, pushed, dropped>>

\* "(sample_rate * bytes_per_sample * channels * frame_duration_ms) / 1000";
\* with the values below the product stays far under the range of guint
FrameSizeBytes(rate, bps, ch, ms) == (rate * bps * ch * ms) \div 1000

\* values of sample-rate, channels and frame-duration-ms the application
\* sets and upstream's caps carry
SampleRates == {8000, DEFAULT_SAMPLE_RATE}

ChannelCounts == {1, 2}

FrameDurations == {20, DEFAULT_FRAME_DURATION_MS}

\* set_property(PROP_SAMPLE_RATE)
SetSampleRate(v) ==
  /\ sample_rate' = v
  /\ frame_size_bytes' =
       FrameSizeBytes(v, bytes_per_sample, channels, frame_duration_ms)
  /\ UNCHANGED <<channels, bytes_per_sample, frame_duration_ms, frame_duration_ns>>

\* set_property(PROP_CHANNELS)
SetChannels(v) ==
  /\ channels' = v
  /\ frame_size_bytes' =
       FrameSizeBytes(sample_rate, bytes_per_sample, v, frame_duration_ms)
  /\ UNCHANGED <<sample_rate, bytes_per_sample, frame_duration_ms, frame_duration_ns>>

\* set_property(PROP_FRAME_DURATION_MS)
SetFrameDurationMs(v) ==
  /\ frame_duration_ms' = v
  /\ frame_size_bytes' =
       FrameSizeBytes(sample_rate, bytes_per_sample, channels, v)
  /\ frame_duration_ns' = v * GST_MSECOND
  /\ UNCHANGED <<sample_rate, channels, bytes_per_sample>>

\* set_property of one of the audio properties, at any time
SetAudioProperty ==
  /\ life_pc # "aborted"
  /\ \/ \E v \in SampleRates : v # sample_rate /\ SetSampleRate(v)
     \/ \E v \in ChannelCounts : v # channels /\ SetChannels(v)
     \/ \E v \in FrameDurations : v # frame_duration_ms /\ SetFrameDurationMs(v)
  /\ UNCHANGED <<lockv, out_first, refv, chainv, config, lifev, wsv, queuev,
                 timingv, flagv, outv, envv, obsv>>

\* values of initial-buffer-count the application configures: none, one
\* the queue can hold, and one more than max-queue-size lets it hold
ReserveSizes == {0, MaxInitBuf, MaxQueue + 1}

\* set_property(PROP_INITIAL_BUFFER_COUNT), by an application that
\* configures the element before it starts it
SetInitialBufferCount ==
  /\ state = "NULL" /\ life_pc = "idle"
  /\ \E v \in ReserveSizes :
       v # initial_buffer_count /\ initial_buffer_count' = v
  /\ UNCHANGED <<lockv, audiov, out_first, refv, chainv, uri_set, max_queue_size,
                 reconnect_enabled, max_reconnects, initial_reconnect_delay_ms,
                 max_backoff_ms, lifev, wsv, queuev, timingv, flagv, outv,
                 envv, obsv>>

(* ------------------------------ lifecycle ----------------------------- *)
\* NULL_TO_READY that starts the worker before it looks at the URI
NullToReadyStartNoUriTest ==
  /\ state = "NULL" /\ life_pc = "idle"
  /\ reconnect_count' = 0
  /\ current_backoff_ms' = 0
  /\ ws_thread_running' = TRUE
  /\ ws_pc' = "check"
  /\ IF ~uri_set
       THEN change_ret' = "FAILURE" /\ UNCHANGED life_pc
       ELSE life_pc' = "n2r_wait" /\ UNCHANGED change_ret
  /\ UNCHANGED <<lockv, audiov, out_first, refv, chainv, config, state, loop, ws_conn, connected, flush_origin,
                 queuev, timingv, flagv, outv, envv, obsv>>

\* NULL_TO_READY up to the start of the worker thread
NullToReadyStart ==
  /\ state = "NULL" /\ life_pc = "idle"
  /\ reconnect_count' = 0
  /\ current_backoff_ms' = 0
  /\ IF ~uri_set
       THEN /\ change_ret' = "FAILURE"
            /\ UNCHANGED <<ws_thread_running, ws_pc, life_pc>>
       ELSE /\ ws_thread_running' = TRUE
            /\ ws_pc' = "check"
            /\ life_pc' = "n2r_wait"
            /\ UNCHANGED change_ret
  /\ UNCHANGED <<lockv, audiov, out_first, refv, chainv, config, state, loop, ws_conn, connected, flush_origin,
                 queuev, timingv, flagv, outv, envv, obsv>>

\* the connect wait: leaves the loop with connected seen under state_lock,
\* or times out, unlocks and breaks
NullToReadyWait ==
  /\ life_pc = "n2r_wait"
  /\ \/ /\ connected
        /\ state' = "READY" /\ life_pc' = "idle" /\ change_ret' = "SUCCESS"
     \/ /\ ~connected
        /\ life_pc' = "n2r_check" /\ UNCHANGED <<state, change_ret>>
  /\ UNCHANGED <<lockv, audiov, out_first, refv, chainv, config, wsv, queuev, timingv, flagv, outv, envv, obsv>>

\* after the timeout state_lock is released and "if (self->connected)" is
\* read without it.  When the handshake completed in between, state_lock is
\* unlocked a second time by a thread that does not hold it, which GLib
\* leaves undefined: the process is aborted (no thread is left), or the
\* unlock passes and the transition goes on.
NullToReadyCheck ==
  /\ life_pc = "n2r_check"
  /\ \/ /\ state' = "READY" /\ life_pc' = "idle" /\ change_ret' = "SUCCESS"
        /\ UNCHANGED ws_pc
     \/ /\ connected
        /\ life_pc' = "aborted" /\ change_ret' = "ABORTED" /\ ws_pc' = "off"
        /\ UNCHANGED state
  /\ UNCHANGED <<lockv, audiov, out_first, refv, chainv, config, ws_thread_running, loop, ws_conn, connected,
                 reconnect_count, current_backoff_ms, flush_origin,
                 queuev, timingv, flagv, outv, envv, obsv>>

\* READY_TO_PAUSED: clears the flags and starts the output pacer, which
\* pushes stream-start and initialises its locals
ReadyToPaused ==
  /\ state = "READY" /\ life_pc = "idle"
  /\ eos_sent' = FALSE
  /\ caps_ready' = FALSE
  /\ output_thread_running' = TRUE
  /\ caps_pushed' = FALSE
  /\ segment_pushed' = FALSE
  /\ timing_initialized' = FALSE
  /\ initial_buffering' = (initial_buffer_count > 0)
  /\ buffer' = NoBuffer
  /\ out_pc' = "top"
  /\ out_first' = Rec("order", <<"stream-start">>, out_first)
  /\ state' = "PAUSED" /\ change_ret' = "NO_PREROLL"
  /\ eos_count' = 0
  /\ Disturb
  /\ UNCHANGED <<lockv, audiov, refv, chainv, observe, histv, config, life_pc, wsv, queuev, timingv, envv, seg_since_flush,
                 stale_upto, last_pts, reset_by, gap_iters>>

\* PAUSED_TO_READY that leaves output_thread_running set
PausedToReadyStopKeepFlag ==
  /\ state = "PAUSED" /\ life_pc = "idle"
  /\ chain_pc = "idle"
  /\ src_caps' = FALSE /\ sink_eos' = FALSE
  /\ life_pc' = "p2r_join"
  /\ UNCHANGED <<lockv, audiov, out_first, refv, chainv, config, state, change_ret, wsv, queuev, timingv, flagv,
                 outv, clock, obsv>>

\* PAUSED_TO_READY: the parent class deactivates the pads (a chain call in
\* progress returns first; the source pad drops its caps, the sink pad its
\* EOS), then the flag is cleared and the three conditions are broadcast
PausedToReadyStop ==
  /\ state = "PAUSED" /\ life_pc = "idle"
  /\ chain_pc = "idle"
  /\ src_caps' = FALSE /\ sink_eos' = FALSE
  /\ output_thread_running' = FALSE
  /\ life_pc' = "p2r_join"
  /\ UNCHANGED <<lockv, audiov, out_first, refv, chainv, config, state, change_ret, wsv, queuev, timingv, eos_sent, caps_ready,
                 outv, clock, obsv>>

\* PAUSED_TO_READY: join, then reset of the timing state
PausedToReadyJoin ==
  /\ life_pc = "p2r_join" /\ out_pc = "done"
  /\ out_pc' = "off"
  /\ first_timestamp_set' = FALSE
  /\ next_timestamp' = 0
  /\ caps_ready' = FALSE
  /\ state' = "READY" /\ life_pc' = "idle" /\ change_ret' = "SUCCESS"
  /\ reset_by' = Rec("gap", "init", reset_by) /\ gap_iters' = 0
  /\ Disturb
  /\ UNCHANGED <<lockv, audiov, out_first, refv, chainv, observe, histv, config, wsv, queuev, base_timestamp, need_segment, eos_sent,
                 output_thread_running, caps_pushed, segment_pushed,
                 timing_initialized, initial_buffering, buffer,
                 envv, eos_count, seg_since_flush, stale_upto, last_pts>>

\* READY_TO_NULL: the running flag is cleared
ReadyToNullStop ==
  /\ state = "READY" /\ life_pc = "idle"
  /\ ws_thread_running' = FALSE
  /\ life_pc' = "r2n_quit"
  /\ UNCHANGED <<lockv, audiov, out_first, refv, chainv, config, state, change_ret, ws_pc, loop, ws_conn, connected, reconnect_count,
                 current_backoff_ms, flush_origin, queuev, timingv, flagv, outv,
                 envv, obsv>>

\* READY_TO_NULL: "if (self->loop) g_main_loop_quit(self->loop)"; a quit of a
\* loop that is not yet run is lost (g_main_loop_run sets is_running again)
ReadyToNullQuit ==
  /\ life_pc = "r2n_quit"
  /\ loop' = IF loop = "running" THEN "stopped" ELSE loop
  /\ life_pc' = "r2n_join"
  /\ UNCHANGED <<lockv, audiov, out_first, refv, chainv, config, state, change_ret, ws_thread_running, ws_pc, ws_conn, connected,
                 reconnect_count, current_backoff_ms, flush_origin, queuev,
                 timingv, flagv, outv, envv, obsv>>

\* READY_TO_NULL: join, drain of the receive queue, clearing of the flags
ReadyToNullJoin ==
  /\ life_pc = "r2n_join" /\ ws_pc = "done"
  /\ ws_pc' = "off"
  /\ recv_queue' = <<>>
  /\ connected' = FALSE
  /\ eos_sent' = FALSE
  /\ state' = "NULL" /\ life_pc' = "idle" /\ change_ret' = "SUCCESS"
  /\ Disturb
  /\ run_len' = Rec("run", 0, run_len)
  /\ dropped' = Rec("own", dropped + Len(recv_queue), dropped)
  /\ UNCHANGED <<lockv, audiov, out_first, refv, chainv, config, ws_thread_running, loop, ws_conn, reconnect_count,
                 current_backoff_ms, flush_origin, rx_count, timingv, caps_ready,
                 output_thread_running, outv, envv, observe, rx_msg, pushed,
                 eos_count, seg_since_flush, stale_upto, last_pts, reset_by, gap_iters>>

(* --------------------------- WebSocket worker ------------------------- *)
\* the connect loop's condition without the limit of max-reconnects
WsLoopCondNoLimit ==
  /\ ws_thread_running
  /\ reconnect_enabled

\* the connect loop's condition
WsLoopCond ==
  /\ ws_thread_running
  /\ reconnect_enabled
  /\ (max_reconnects = 0 \/ reconnect_count < max_reconnects)

\* loop condition; new session and loop; asynchronous handshake started
WsLoopCheck ==
  /\ ws_pc = "check"
  /\ IF WsLoopCond
       THEN loop' = "new" /\ ws_pc' = "run"
       ELSE ws_pc' = "done" /\ UNCHANGED loop
  /\ UNCHANGED <<lockv, audiov, out_first, refv, chainv, config, lifev, ws_thread_running, ws_conn, connected,
                 reconnect_count, current_backoff_ms, flush_origin, queuev,
                 timingv, flagv, outv, envv, obsv>>

\* g_main_loop_run is entered
WsRun ==
  /\ ws_pc = "run"
  /\ loop' = "running"
  /\ ws_pc' = "connecting"
  /\ UNCHANGED <<lockv, audiov, out_first, refv, chainv, config, lifev, ws_thread_running, ws_conn, connected,
                 reconnect_count, current_backoff_ms, flush_origin, queuev,
                 timingv, flagv, outv, envv, obsv>>

\* on_websocket_connected, with the reconnect counters cleared on success
OnConnectedOkReset ==
  /\ ws_pc = "connecting" /\ loop = "running"
  /\ ws_conn' = TRUE
  /\ connected' = TRUE
  /\ reconnect_count' = 0
  /\ current_backoff_ms' = 0
  /\ ws_pc' = "f_drain" /\ flush_origin' = "connect"
  /\ FlushBegin
  /\ handle_refs' = 1
  /\ UNCHANGED <<chain_handle, old_refs>>
  /\ UNCHANGED <<lockv, audiov, out_first, chainv, config, lifev, ws_thread_running, loop,
                 queuev, timingv, flagv, outv, envv, ObsButFlush>>

\* on_websocket_connected that publishes the handle and does not flush
OnConnectedOkNoFlush ==
  /\ ws_pc = "connecting" /\ loop = "running"
  /\ ws_conn' = TRUE
  /\ connected' = TRUE
  /\ ws_pc' = "open"
  /\ handle_refs' = 1
  /\ UNCHANGED <<chain_handle, old_refs>>
  /\ UNCHANGED <<lockv, audiov, out_first, chainv, config, lifev, ws_thread_running, loop, reconnect_count,
                 current_backoff_ms, flush_origin, queuev, timingv, flagv, outv,
                 envv, obsv>>

\* on_websocket_connected, handshake ok: handle published, then the flush
OnConnectedOk ==
  /\ ws_pc = "connecting" /\ loop = "running"
  /\ ws_conn' = TRUE
  /\ connected' = TRUE
  /\ ws_pc' = "f_drain" /\ flush_origin' = "connect"
  /\ FlushBegin
  /\ handle_refs' = 1
  /\ UNCHANGED <<chain_handle, old_refs>>
  /\ UNCHANGED <<lockv, audiov, out_first, chainv, config, lifev, ws_thread_running, loop, reconnect_count,
                 current_backoff_ms, queuev, timingv, flagv, outv, envv,
                 ObsButFlush>>

\* on_websocket_connected, handshake refused: the inner loop is quit
OnConnectedFail ==
  /\ ws_pc = "connecting" /\ loop = "running"
  /\ loop' = "stopped"
  /\ UNCHANGED <<lockv, audiov, out_first, refv, chainv, config, lifev, ws_thread_running, ws_pc, ws_conn, connected,
                 reconnect_count, current_backoff_ms, flush_origin, queuev,
                 timingv, flagv, outv, envv, obsv>>

\* drop-oldest: "while (length >= max_queue_size) pop_head"
RECURSIVE DropOldest(_, _)
DropOldest(q, cap) ==
  IF Len(q) >= cap /\ Len(q) > 0 THEN DropOldest(Tail(q), cap) ELSE q

\* the enqueue that keeps a full queue and drops the new frame
QueuePushDropNewest(q, f, cap) == IF Len(q) >= cap THEN q ELSE Append(q, f)

QueuePush(q, f, cap) == Append(DropOldest(q, cap), f)

\* on_websocket_message, binary frame
OnMessageBinary ==
  /\ ws_pc = "open" /\ loop = "running"
  /\ rx_count < MaxFrames
  /\ rx_count' = rx_count + 1
  /\ recv_queue' = QueuePush(recv_queue, rx_count + 1, max_queue_size)
  /\ Disturb
  /\ run_len' = Rec("run", IF run_len >= 0 THEN run_len + 1 ELSE run_len, run_len)
  /\ dropped' = Rec("own", dropped + Len(recv_queue) + 1 - Len(recv_queue'), dropped)
  /\ UNCHANGED <<lockv, audiov, out_first, refv, chainv, config, lifev, wsv, timingv, flagv, outv, envv, observe, rx_msg, pushed,
                 eos_count, seg_since_flush, stale_upto, last_pts, reset_by, gap_iters>>

\* on_websocket_message, text {"type":"clear"}
OnMessageClear ==
  /\ ws_pc = "open" /\ loop = "running"
  /\ ws_pc' = "f_drain" /\ flush_origin' = "clear"
  /\ FlushBegin
  /\ UNCHANGED <<lockv, audiov, out_first, refv, chainv, config, lifev, ws_thread_running, loop, ws_conn, connected,
                 reconnect_count, current_backoff_ms, queuev, timingv, flagv,
                 outv, envv, ObsButFlush>>

\* a text frame: whether its payload parses as JSON, what the root is, and
\* what the root object holds as member "type"
TextFrames ==
  {[type |-> "TEXT", wellformed |-> FALSE, root |-> "none", member |-> "absent"],
   [type |-> "TEXT", wellformed |-> TRUE, root |-> "array", member |-> "absent"]}
  \cup [type : {"TEXT"}, wellformed : {TRUE}, root : {"object"},
        member : {"absent", "number", "other", "clear"}]

\* a frame that is neither text nor binary
OtherFrames ==
  {[type |-> "OTHER", wellformed |-> FALSE, root |-> "none", member |-> "absent"]}

\* json_object_get_string_member_with_default(obj, "type", NULL): the string
\* the member holds, NULL when it is absent or not a string
StringMember(m) == IF m.member \in {"absent", "number"} THEN "NULL" ELSE m.member

\* the text handler that flushes on every message with a member "type"
HandledAnyType(m) ==
  /\ m.wellformed
  /\ m.root = "object"
  /\ StringMember(m) # "NULL"

\* "handled": the text parses, its root is an object and its member "type"
\* is the string "clear"
Handled(m) ==
  /\ m.wellformed
  /\ m.root = "object"
  /\ StringMember(m) # "NULL" /\ StringMember(m) = "clear"

\* on_websocket_message, every frame that is not binary: a text frame is
\* parsed and flushes when it is the clear message, else it is warned about;
\* a frame of another type is warned about
OnMessageText ==
  /\ ws_pc = "open" /\ loop = "running"
  /\ \E m \in TextFrames \cup OtherFrames :
       /\ rx_msg' = m
       /\ IF m.type = "TEXT" /\ Handled(m)
            THEN ws_pc' = "f_drain" /\ flush_origin' = "clear" /\ FlushBegin
            ELSE UNCHANGED <<ws_pc, flush_origin, flushv>>
  /\ UNCHANGED <<lockv, audiov, out_first, refv, chainv, config, lifev, ws_thread_running, loop, ws_conn, connected,
                 reconnect_count, current_backoff_ms, queuev, timingv, flagv,
                 outv, envv, observe, run_len, pushed, dropped, eos_count, seg_since_flush, stale_upto,
                 last_pts, reset_by, gap_iters>>

\* on_websocket_closed
OnClosed ==
  /\ ws_pc = "open" /\ loop = "running"
  /\ connected' = FALSE
  /\ loop' = "stopped"
  /\ UNCHANGED <<lockv, audiov, out_first, refv, chainv, config, lifev, ws_thread_running, ws_pc, ws_conn,
                 reconnect_count, current_backoff_ms, flush_origin, queuev,
                 timingv, flagv, outv, envv, obsv>>

\* on_websocket_error
OnError ==
  /\ ws_pc = "open" /\ loop = "running"
  /\ loop' = "stopped"
  /\ UNCHANGED <<lockv, audiov, out_first, refv, chainv, config, lifev, ws_thread_running, ws_pc, ws_conn, connected,
                 reconnect_count, current_backoff_ms, flush_origin, queuev,
                 timingv, flagv, outv, envv, obsv>>

\* flush_queue: the queue is drained under queue_lock
FlushDrain ==
  /\ ws_pc = "f_drain"
  /\ recv_queue' = <<>>
  /\ ws_pc' = "f_reset"
  /\ run_len' = Rec("run", 0, run_len)
  /\ dropped' = Rec("own", dropped + Len(recv_queue), dropped)
  /\ UNCHANGED <<lockv, audiov, out_first, refv, chainv, config, lifev, ws_thread_running, loop, ws_conn, connected,
                 reconnect_count, current_backoff_ms, flush_origin, rx_count,
                 timingv, flagv, outv, envv, observe, eos_count, seg_since_flush, stale_upto,
                 last_pts, reset_by, gap_iters, flushv, rx_msg, pushed>>

\* flush_queue: timestamps reset under output_lock
FlushReset ==
  /\ ws_pc = "f_reset"
  /\ next_timestamp' = 0
  /\ first_timestamp_set' = FALSE
  /\ ws_pc' = "f_events"
  /\ reset_by' = Rec("gap", flush_origin, reset_by) /\ gap_iters' = 0
  /\ UNCHANGED <<lockv, audiov, out_first, refv, chainv, observe, flushv, histv, config, lifev, ws_thread_running, loop, ws_conn, connected,
                 reconnect_count, current_backoff_ms, flush_origin, queuev,
                 base_timestamp, need_segment, flagv, outv, envv, eos_count,
                 seg_since_flush, stale_upto, last_pts>>

\* flush_queue that pushes flush-stop before flush-start
FlushEventsReversed ==
  /\ ws_pc = "f_events"
  /\ ws_pc' = "f_seg"
  /\ seg_since_flush' = Rec("seg", FALSE, seg_since_flush)
  /\ flush_log' = Rec("quiet", flush_log \o <<"flush-stop", "flush-start">>, flush_log)
  /\ UNCHANGED <<lockv, audiov, out_first, refv, chainv, observe, quiet, histv, config, lifev, ws_thread_running, loop, ws_conn, connected,
                 reconnect_count, current_backoff_ms, flush_origin, queuev,
                 timingv, flagv, outv, envv, eos_count, stale_upto, last_pts,
                 reset_by, gap_iters>>

\* flush_queue: flush-start, then flush-stop, pushed on the source pad
FlushEvents ==
  /\ ws_pc = "f_events"
  /\ ws_pc' = "f_seg"
  /\ seg_since_flush' = Rec("seg", FALSE, seg_since_flush)
  /\ flush_log' = Rec("quiet", flush_log \o <<"flush-start", "flush-stop">>, flush_log)
  /\ UNCHANGED <<lockv, audiov, out_first, refv, chainv, observe, quiet, histv, config, lifev, ws_thread_running, loop, ws_conn, connected,
                 reconnect_count, current_backoff_ms, flush_origin, queuev,
                 timingv, flagv, outv, envv, eos_count, stale_upto, last_pts,
                 reset_by, gap_iters>>

\* flush_queue that inverts need_segment
FlushNeedSegmentToggle ==
  /\ ws_pc = "f_seg"
  /\ need_segment' = ~need_segment
  /\ ws_pc' = "open" /\ flush_origin' = "none"
  /\ stale_upto' = Rec("stale", rx_count, stale_upto)
  /\ quiet' = Rec("quiet", IF quiet < 0 THEN 0 ELSE quiet + 1, quiet)
  /\ UNCHANGED <<lockv, audiov, out_first, refv, chainv, observe, flush_log, histv, config, lifev, ws_thread_running, loop, ws_conn, connected,
                 reconnect_count, current_backoff_ms, queuev, base_timestamp,
                 next_timestamp, first_timestamp_set, flagv, outv, envv,
                 eos_count, seg_since_flush, last_pts, reset_by, gap_iters>>

\* flush_queue: need_segment set under output_lock; the flush is complete
FlushNeedSegment ==
  /\ ws_pc = "f_seg"
  /\ need_segment' = TRUE
  /\ ws_pc' = "open" /\ flush_origin' = "none"
  /\ stale_upto' = Rec("stale", rx_count, stale_upto)
  /\ quiet' = Rec("quiet", IF quiet < 0 THEN 0 ELSE quiet + 1, quiet)
  /\ UNCHANGED <<lockv, audiov, out_first, refv, chainv, observe, flush_log, histv, config, lifev, ws_thread_running, loop, ws_conn, connected,
                 reconnect_count, current_backoff_ms, queuev, base_timestamp,
                 next_timestamp, first_timestamp_set, flagv, outv, envv,
                 eos_count, seg_since_flush, last_pts, reset_by, gap_iters>>

\* the backoff without the clamp at max-backoff-ms
BackoffNoClamp(cur, initial, maxb) ==
  IF cur > 0 THEN cur * 2 ELSE initial

\* the backoff kept at or above the initial delay
BackoffAtLeastInitial(cur, initial, maxb) ==
  Max(initial, Min(cur * 2, maxb))

\* the backoff the worker computes
Backoff(cur, initial, maxb) ==
  IF cur > 0 THEN Min(cur * 2, maxb) ELSE initial

\* the code after the event loop without the cleanup of the connection
WsAfterLoopKeepConn ==
  /\ ws_pc \in {"connecting", "open"} /\ loop = "stopped"
  /\ loop' = "none"
  /\ UNCHANGED <<ws_conn, connected>>
  /\ IF ~ws_thread_running
       THEN /\ ws_pc' = "done"
            /\ UNCHANGED <<reconnect_count, current_backoff_ms>>
       ELSE /\ reconnect_count < MaxCount
            /\ reconnect_count' = reconnect_count + 1
            /\ current_backoff_ms' =
                 Backoff(current_backoff_ms, initial_reconnect_delay_ms,
                         max_backoff_ms)
            /\ ws_pc' = "check"
  /\ UNCHANGED refv
  /\ UNCHANGED <<lockv, audiov, out_first, chainv, config, lifev, ws_thread_running, flush_origin, queuev,
                 timingv, flagv, outv, envv, obsv>>

\* g_main_loop_run returns: loop and session released, the connection cleaned
\* up under state_lock, then "if (!ws_thread_running) break", else the
\* attempt is counted and the backoff slept
WsAfterLoop ==
  /\ ws_pc \in {"connecting", "open"} /\ loop = "stopped"
  /\ loop' = "none"
  /\ IF ws_conn
       THEN ws_conn' = FALSE /\ connected' = FALSE
       ELSE UNCHANGED <<ws_conn, connected>>
  /\ IF ~ws_thread_running
       THEN /\ ws_pc' = "done"
            /\ UNCHANGED <<reconnect_count, current_backoff_ms>>
       ELSE /\ reconnect_count < MaxCount
            /\ reconnect_count' = reconnect_count + 1
            /\ current_backoff_ms' =
                 Backoff(current_backoff_ms, initial_reconnect_delay_ms,
                         max_backoff_ms)
            /\ ws_pc' = "check"
  /\ IF ws_conn
       THEN /\ handle_refs' = 0
            /\ IF chain_handle = "current"
                 THEN chain_handle' = "old" /\ old_refs' = Unref(handle_refs)
                 ELSE UNCHANGED <<chain_handle, old_refs>>
       ELSE UNCHANGED refv
  /\ UNCHANGED <<lockv, audiov, out_first, chainv, config, lifev, ws_thread_running, flush_origin, queuev,
                 timingv, flagv, outv, envv, obsv>>

(* ----------------------------- output pacer --------------------------- *)
TsCap == MaxTs * frame_duration

\* the loop body without the caps block
AfterInitBufNoCaps == "segcheck"

\* where the loop body goes after the initial-buffering block
AfterInitBuf == IF ~caps_pushed THEN "caps" ELSE "segcheck"

\* "while (output_thread_running)" and the timing initialisation
OutTop ==
  /\ out_pc = "top"
  /\ IF ~output_thread_running
       THEN /\ out_pc' = "done"
            /\ UNCHANGED <<timingv, timing_initialized, reset_by, gap_iters>>
       ELSE IF timing_initialized
         THEN /\ out_pc' = IF initial_buffering /\ initial_buffer_count > 0
                             THEN "initbuf" ELSE AfterInitBuf
              /\ UNCHANGED <<timingv, timing_initialized, reset_by, gap_iters>>
         ELSE IF clock
           THEN /\ base_timestamp' = ClockNow
                /\ next_timestamp' = 0
                /\ first_timestamp_set' = TRUE
                /\ timing_initialized' = TRUE
                /\ reset_by' = Rec("gap", "init", reset_by) /\ gap_iters' = 0
                /\ out_pc' = IF initial_buffering /\ initial_buffer_count > 0
                               THEN "initbuf" ELSE AfterInitBuf
                /\ UNCHANGED need_segment
           ELSE UNCHANGED <<out_pc, timingv, timing_initialized, reset_by,
                            gap_iters>>
  /\ Disturb
  /\ UNCHANGED <<lockv, audiov, out_first, refv, chainv, observe, histv, config, lifev, wsv, queuev, flagv, caps_pushed, segment_pushed,
                 initial_buffering, buffer, envv, eos_count, seg_since_flush,
                 stale_upto, last_pts>>

\* the initial jitter reserve that is left one frame early
OutInitBufOneShort ==
  /\ out_pc = "initbuf"
  /\ IF Len(recv_queue) + 1 < initial_buffer_count
       THEN out_pc' = "top" /\ UNCHANGED initial_buffering
       ELSE initial_buffering' = FALSE /\ out_pc' = AfterInitBuf
  /\ Disturb
  /\ UNCHANGED <<lockv, audiov, out_first, refv, chainv, config, lifev, wsv, queuev, timingv, flagv, caps_pushed,
                 segment_pushed, timing_initialized, buffer, envv, observe, histv,
                 eos_count, seg_since_flush, stale_upto, last_pts, reset_by, gap_iters>>

\* initial jitter reserve
OutInitBuf ==
  /\ out_pc = "initbuf"
  /\ IF Len(recv_queue) < initial_buffer_count
       THEN out_pc' = "top" /\ UNCHANGED initial_buffering
       ELSE initial_buffering' = FALSE /\ out_pc' = AfterInitBuf
  /\ Disturb
  /\ UNCHANGED <<lockv, audiov, out_first, refv, chainv, config, lifev, wsv, queuev, timingv, flagv, caps_pushed,
                 segment_pushed, timing_initialized, buffer, envv, observe, histv,
                 eos_count, seg_since_flush, stale_upto, last_pts, reset_by, gap_iters>>

\* bounded wait on caps_ready, then the caps event from the pad's caps
OutCaps ==
  /\ out_pc = "caps"
  /\ IF src_caps THEN NoteFirst("caps") ELSE UNCHANGED out_first
  /\ IF src_caps
       THEN caps_pushed' = TRUE /\ out_pc' = "segcheck"
       ELSE out_pc' = "top" /\ UNCHANGED caps_pushed
  /\ Disturb
  /\ UNCHANGED <<lockv, audiov, refv, chainv, config, lifev, wsv, queuev, timingv, flagv, segment_pushed,
                 timing_initialized, initial_buffering, buffer, envv, observe, histv,
                 eos_count, seg_since_flush, stale_upto, last_pts, reset_by, gap_iters>>

\* need_segment read and cleared under output_lock
OutSegCheck ==
  /\ out_pc = "segcheck"
  /\ need_segment' = FALSE
  /\ out_pc' = IF ~segment_pushed \/ need_segment THEN "segpush" ELSE "pop"
  /\ Disturb
  /\ UNCHANGED <<lockv, audiov, out_first, refv, chainv, config, lifev, wsv, queuev, base_timestamp, next_timestamp,
                 first_timestamp_set, flagv, caps_pushed, segment_pushed,
                 timing_initialized, initial_buffering, buffer, envv, observe, histv,
                 eos_count, seg_since_flush, stale_upto, last_pts, reset_by, gap_iters>>

\* segment event pushed
OutSegPush ==
  /\ out_pc = "segpush"
  /\ NoteFirst("segment")
  /\ segment_pushed' = TRUE
  /\ out_pc' = "pop"
  /\ seg_since_flush' = TRUE
  /\ last_pts' = NoTime
  /\ Disturb
  /\ UNCHANGED <<lockv, audiov, refv, chainv, observe, histv, config, lifev, wsv, queuev, timingv, flagv, caps_pushed,
                 timing_initialized, initial_buffering, buffer, envv, eos_count,
                 stale_upto, reset_by, gap_iters>>

\* the dequeue that takes the head frame and leaves it in the queue
OutPopPeek ==
  /\ out_pc = "pop"
  /\ IF eos_sent
       THEN out_pc' = "done" /\ UNCHANGED <<recv_queue, buffer>>
       ELSE \/ /\ ~output_thread_running
               /\ out_pc' = "done" /\ UNCHANGED <<recv_queue, buffer>>
            \/ /\ recv_queue # <<>>
               /\ buffer' = [id |-> Head(recv_queue), pts |-> NoTime]
               /\ recv_queue' = recv_queue
               /\ out_pc' = "stamp"
            \/ /\ recv_queue = <<>>
               /\ out_pc' = "nobuf" /\ UNCHANGED <<recv_queue, buffer>>
  /\ Disturb
  /\ run_len' = Rec("run", IF recv_queue' = recv_queue THEN run_len
                            ELSE IF recv_queue' = <<>> THEN 0 ELSE -1, run_len)
  /\ UNCHANGED <<lockv, audiov, out_first, refv, chainv, config, lifev, wsv, rx_count, timingv, flagv, caps_pushed,
                 segment_pushed, timing_initialized, initial_buffering, envv,
                 observe, rx_msg, pushed, dropped,
                 eos_count, seg_since_flush, stale_upto, last_pts, reset_by, gap_iters>>

\* eos_sent check, deadline wait, dequeue under queue_lock
OutPop ==
  /\ out_pc = "pop"
  /\ IF eos_sent
       THEN out_pc' = "done" /\ UNCHANGED <<recv_queue, buffer>>
       ELSE \/ /\ ~output_thread_running
               /\ out_pc' = "done" /\ UNCHANGED <<recv_queue, buffer>>
            \/ /\ recv_queue # <<>>
               /\ buffer' = [id |-> Head(recv_queue), pts |-> NoTime]
               /\ recv_queue' = Tail(recv_queue)
               /\ out_pc' = "stamp"
            \/ /\ recv_queue = <<>>
               /\ out_pc' = "nobuf" /\ UNCHANGED <<recv_queue, buffer>>
  /\ Disturb
  /\ run_len' = Rec("run", IF recv_queue' = recv_queue THEN run_len
                            ELSE IF recv_queue' = <<>> THEN 0 ELSE -1, run_len)
  /\ UNCHANGED <<lockv, audiov, out_first, refv, chainv, config, lifev, wsv, rx_count, timingv, flagv, caps_pushed,
                 segment_pushed, timing_initialized, initial_buffering, envv,
                 observe, rx_msg, pushed, dropped,
                 eos_count, seg_since_flush, stale_upto, last_pts, reset_by, gap_iters>>

\* no buffer, without the eos_sent flag and the break: end-of-stream
\* whenever the queue is empty and connected is false
OutNoBufNaive ==
  /\ out_pc = "nobuf"
  /\ IF ~connected
       THEN /\ eos_count' = Rec("eos", Min(eos_count + 1, 2), eos_count)
            /\ UNCHANGED <<next_timestamp, gap_iters>>
       ELSE /\ next_timestamp < TsCap
            /\ next_timestamp' = next_timestamp + frame_duration
            /\ gap_iters' = IF reset_by # "none" THEN gap_iters + 1 ELSE 0
            /\ UNCHANGED eos_count
  /\ out_pc' = "top"
  /\ Disturb
  /\ UNCHANGED <<lockv, audiov, out_first, refv, chainv, observe, histv, config, lifev, wsv, queuev, base_timestamp, first_timestamp_set,
                 need_segment, flagv, caps_pushed, segment_pushed,
                 timing_initialized, initial_buffering, buffer, envv,
                 seg_since_flush, stale_upto, last_pts, reset_by>>

\* no buffer, without the advance of next_timestamp over a gap
OutNoBufNoAdvance ==
  /\ out_pc = "nobuf"
  /\ IF ~connected /\ ~eos_sent
       THEN /\ eos_sent' = TRUE
            /\ out_pc' = "eos"
            /\ UNCHANGED gap_iters
       ELSE /\ gap_iters < MaxTs
            /\ gap_iters' = IF reset_by # "none" THEN gap_iters + 1 ELSE 0
            /\ out_pc' = "top"
            /\ UNCHANGED eos_sent
  /\ Disturb
  /\ UNCHANGED <<lockv, audiov, out_first, refv, chainv, observe, histv, config, lifev, wsv, queuev, timingv, caps_ready,
                 output_thread_running, caps_pushed, segment_pushed,
                 timing_initialized, initial_buffering, buffer, envv, eos_count,
                 seg_since_flush, stale_upto, last_pts, reset_by>>

\* no buffer: end-of-stream decision under state_lock, else the timestamp
\* advances by one frame under output_lock
OutNoBuf ==
  /\ out_pc = "nobuf"
  /\ IF ~connected /\ ~eos_sent
       THEN /\ eos_sent' = TRUE
            /\ out_pc' = "eos"
            /\ UNCHANGED <<next_timestamp, gap_iters>>
       ELSE /\ next_timestamp < TsCap
            /\ next_timestamp' = next_timestamp + frame_duration
            /\ gap_iters' = IF reset_by # "none" THEN gap_iters + 1 ELSE 0
            /\ out_pc' = "top"
            /\ UNCHANGED eos_sent
  /\ Disturb
  /\ UNCHANGED <<lockv, audiov, out_first, refv, chainv, observe, histv, config, lifev, wsv, queuev, base_timestamp, first_timestamp_set,
                 need_segment, caps_ready, output_thread_running, caps_pushed,
                 segment_pushed, timing_initialized, initial_buffering, buffer,
                 envv, eos_count, seg_since_flush, stale_upto, last_pts, reset_by>>

\* end-of-stream pushed on the source pad, then "break"
OutEos ==
  /\ out_pc = "eos"
  /\ NoteFirst("eos")
  /\ eos_count' = Rec("eos", Min(eos_count + 1, 2), eos_count)
  /\ out_pc' = "done"
  /\ Disturb
  /\ UNCHANGED <<lockv, audiov, refv, chainv, observe, histv, config, lifev, wsv, queuev, timingv, flagv, caps_pushed,
                 segment_pushed, timing_initialized, initial_buffering, buffer,
                 envv, seg_since_flush, stale_upto, last_pts, reset_by, gap_iters>>

\* pts and duration stamped, next_timestamp advanced, under output_lock
OutStamp ==
  /\ out_pc = "stamp"
  /\ next_timestamp < TsCap
  /\ buffer' = [buffer EXCEPT !.pts = base_timestamp + next_timestamp]
  /\ next_timestamp' = next_timestamp + frame_duration
  /\ out_pc' = "push"
  /\ reset_by' = "none" /\ gap_iters' = 0
  /\ Disturb
  /\ UNCHANGED <<lockv, audiov, out_first, refv, chainv, observe, histv, config, lifev, wsv, queuev, base_timestamp, first_timestamp_set,
                 need_segment, flagv, caps_pushed, segment_pushed,
                 timing_initialized, initial_buffering, envv, eos_count,
                 seg_since_flush, stale_upto, last_pts>>

\* downstream's answer to gst_pad_push
FlowReturns == {"OK", "FLUSHING", "EOS"}

\* gst_pad_push and the evaluation of its result
OutPush ==
  /\ out_pc = "push"
  /\ NoteFirst("buffer")
  /\ \E ret \in FlowReturns :
       out_pc' = IF (ret = "FLUSHING" /\ ~output_thread_running) \/ ret = "EOS"
                   THEN "done" ELSE "top"
  /\ last_pts' = Rec("pts", buffer.pts, last_pts)
  /\ buffer' = NoBuffer
  /\ Disturb
  /\ pushed' = Rec("own", Append(pushed, buffer.id), pushed)
  /\ UNCHANGED <<lockv, audiov, refv, chainv, observe, rx_msg, run_len, dropped, config, lifev, wsv, queuev, timingv, flagv, caps_pushed,
                 segment_pushed, timing_initialized, initial_buffering, envv,
                 eos_count, seg_since_flush, stale_upto, reset_by, gap_iters>>

(* ----------------------------- environment ---------------------------- *)
\* the pipeline hands the element its clock
SetClock ==
  /\ state = "PAUSED" /\ life_pc = "idle" /\ ~clock
  /\ clock' = TRUE
  /\ UNCHANGED <<lockv, audiov, out_first, refv, chainv, config, lifev, wsv, queuev, timingv, flagv, outv, src_caps,
                 sink_eos, obsv>>

\* the caps upstream negotiates: the name of the format, rate and channels
AllCaps ==
  [format : {"audio/x-raw", "audio/x-mulaw", "audio/x-opus"},
   rate : SampleRates, channels : ChannelCounts]

\* the default format in a pipeline whose audio parameters are not
\* followed, every format in one whose parameters are
UpstreamCaps ==
  IF "audio" \in observe
    THEN AllCaps
    ELSE {[format |-> "audio/x-raw", rate |-> DEFAULT_SAMPLE_RATE,
           channels |-> DEFAULT_CHANNELS]}

\* bytes per sample: 16-bit samples for audio/x-raw (GST_AUDIO_INFO_BPF
\* over the channels, and the fallback of 2), 1 for mu-law, a-law and
\* every other format
BytesPerSample(caps) == IF caps.format = "audio/x-raw" THEN 2 ELSE 1

\* sink_setcaps: the audio parameters taken from the caps
SinkSetcaps(caps) ==
  IF "audio" \in observe
    THEN /\ sample_rate' = caps.rate
         /\ channels' = caps.channels
         /\ bytes_per_sample' = BytesPerSample(caps)
         /\ frame_size_bytes' =
              FrameSizeBytes(caps.rate, BytesPerSample(caps), caps.channels,
                             frame_duration_ms)
         /\ frame_duration_ns' = frame_duration_ms * GST_MSECOND
         /\ UNCHANGED frame_duration_ms
    ELSE UNCHANGED audiov

\* sink_event(CAPS) -> sink_setcaps: caps mirrored on the source pad,
\* caps_ready set
SinkEventCaps ==
  /\ state = "PAUSED" /\ life_pc = "idle" /\ ~sink_eos
  /\ src_caps' = TRUE
  /\ caps_ready' = TRUE
  /\ \E caps \in UpstreamCaps : SinkSetcaps(caps)
  /\ UNCHANGED <<lockv, out_first, refv, chainv, config, lifev, wsv, queuev, timingv, eos_sent,
                 output_thread_running, outv, clock, sink_eos, obsv>>

\* sink_event as gst_pad_event_default handles it: end-of-stream forwarded
\* to the source pad
SinkEosForwarded ==
  /\ eos_count' = Rec("eos", Min(eos_count + 1, 2), eos_count)
  /\ UNCHANGED <<lockv, audiov, out_first, refv, chainv, observe, flushv, histv, config, lifev, wsv, queuev, timingv, flagv, outv, clock,
                 src_caps, seg_since_flush, stale_upto, last_pts, reset_by,
                 gap_iters>>

\* sink_event(EOS): the event is released, nothing else
SinkEosHandler ==
  UNCHANGED <<lockv, audiov, out_first, refv, chainv, config, lifev, wsv, queuev, timingv, flagv, outv, clock,
              src_caps, obsv>>

\* end-of-stream arrives on the sink pad
SinkEventEos ==
  /\ state = "PAUSED" /\ life_pc = "idle" /\ ~sink_eos
  /\ sink_eos' = TRUE
  /\ SinkEosHandler

(* ------------------------------ sink chain ---------------------------- *)
\* the audio units upstream presents: its bytes (named by id), their number,
\* and whether gst_buffer_map can map them for reading
Units(id) == [id : {id}, size : {0, MaxSize}, readable : BOOLEAN]

\* g_bytes_new(map.data, map.size): a copy of the mapped bytes
BytesNew(u) == [data |-> u.id, size |-> u.size]

\* the binary frame soup_websocket_connection_send_binary is given
BinaryFrame(bytes) == [payload |-> bytes.data, length |-> bytes.size]

\* the frames of a chain call that sends the unit in two halves
SplitFrames(u) ==
  IF u.readable
    THEN <<[payload |-> u.id, length |-> u.size \div 2],
           [payload |-> u.id, length |-> u.size - (u.size \div 2)]>>
    ELSE <<>>

\* the frames one chain call hands to the connection
FramesOf(u) == IF u.readable THEN <<BinaryFrame(BytesNew(u))>> ELSE <<>>

\* chain that takes the handle without the test of connected and ws_conn
ChainCheckNoTest ==
  /\ state = "PAUSED" /\ life_pc = "idle" /\ ~sink_eos
  /\ chain_pc = "idle" /\ tx_count < MaxUnits
  /\ tx_count' = tx_count + 1
  /\ \E u \in Units(tx_count + 1) :
       /\ chain_buffer' = u
       /\ chain_pc' = "send"
       /\ chain_ret' = "none"
       /\ UNCHANGED <<sent, tx_dropped>>
  /\ chain_handle' = "current" /\ handle_refs' = handle_refs + 1
  /\ UNCHANGED old_refs
  /\ UNCHANGED <<lockv, audiov, out_first, config, lifev, wsv, queuev, timingv, flagv, outv, envv, obsv>>

\* chain that uses the handle without a reference of its own
ChainCheckNoRef ==
  /\ state = "PAUSED" /\ life_pc = "idle" /\ ~sink_eos
  /\ chain_pc = "idle" /\ tx_count < MaxUnits
  /\ tx_count' = tx_count + 1
  /\ \E u \in Units(tx_count + 1) :
       IF ~connected \/ ~ws_conn
         THEN /\ chain_ret' = "OK"
              /\ tx_dropped' = tx_dropped + 1
              /\ UNCHANGED <<chain_pc, chain_buffer, sent>>
         ELSE /\ chain_buffer' = u
              /\ chain_pc' = "send"
              /\ chain_ret' = "none"
              /\ UNCHANGED <<sent, tx_dropped>>
  /\ IF ~connected \/ ~ws_conn
       THEN UNCHANGED refv
       ELSE /\ chain_handle' = "current"
            /\ UNCHANGED <<handle_refs, old_refs>>
  /\ UNCHANGED <<lockv, audiov, out_first, config, lifev, wsv, queuev, timingv, flagv, outv, envv, obsv>>

\* chain, under state_lock: without a connection the unit is released and
\* OK returned, else the handle is referenced
ChainCheck ==
  /\ state = "PAUSED" /\ life_pc = "idle" /\ ~sink_eos
  /\ chain_pc = "idle" /\ tx_count < MaxUnits
  /\ tx_count' = tx_count + 1
  /\ \E u \in Units(tx_count + 1) :
       IF ~connected \/ ~ws_conn
         THEN /\ chain_ret' = "OK"
              /\ tx_dropped' = tx_dropped + 1
              /\ UNCHANGED <<chain_pc, chain_buffer, sent>>
         ELSE /\ chain_buffer' = u
              /\ chain_pc' = "send"
              /\ chain_ret' = "none"
              /\ UNCHANGED <<sent, tx_dropped>>
  /\ IF ~connected \/ ~ws_conn
       THEN UNCHANGED refv
       ELSE /\ chain_handle' = "current" /\ handle_refs' = handle_refs + 1
            /\ UNCHANGED old_refs
  /\ UNCHANGED <<lockv, audiov, out_first, config, lifev, wsv, queuev, timingv, flagv, outv, envv, obsv>>

\* chain, unlocked: the unit is mapped and sent as one binary frame, the
\* handle and the unit are released, OK is returned
ChainSend ==
  /\ chain_pc = "send"
  /\ sent' = sent \o FramesOf(chain_buffer)
  /\ chain_buffer' = NoUnit
  /\ chain_pc' = "idle"
  /\ chain_ret' = "OK"
  /\ chain_handle' = "none"
  /\ IF chain_handle = "current"
       THEN handle_refs' = Unref(handle_refs) /\ UNCHANGED old_refs
       ELSE old_refs' = Unref(old_refs) /\ UNCHANGED handle_refs
  /\ UNCHANGED <<lockv, audiov, out_first, tx_count, tx_dropped, config, lifev, wsv, queuev, timingv,
                 flagv, outv, envv, obsv>>

(* ------------------------------ mutexes ------------------------------- *)
(* The code sections of every thread as the sequence of their mutex        *)
(* operations, their accesses to the lifecycle flags and their pushes on   *)
(* the source pad, in program order.  A thread runs one section at a time, *)
(* one operation per step; which section comes next is left open.          *)
Lock(l) == [op |-> "lock", on |-> l]

Unlock(l) == [op |-> "unlock", on |-> l]

\* g_cond_wait_until: the mutex is released for the wait and locked again
CondWait(l) == <<[op |-> "wait", on |-> l], Lock(l)>>

Read(f) == [op |-> "read", on |-> f]

Write(f) == [op |-> "write", on |-> f]

\* gst_pad_push_event or gst_pad_push on the source pad
Push == [op |-> "push", on |-> "srcpad"]

\* flush_queue that takes queue_lock while it holds output_lock
FlushQueueOpsNested ==
  <<Lock("output_lock"), Lock("queue_lock"), Unlock("queue_lock"),
    Unlock("output_lock"), Push, Push,
    Lock("output_lock"), Unlock("output_lock")>>

\* flush_queue
FlushQueueOps ==
  <<Lock("queue_lock"), Unlock("queue_lock"),
    Lock("output_lock"), Unlock("output_lock"), Push, Push,
    Lock("output_lock"), Unlock("output_lock")>>

\* on_websocket_message: a binary frame is queued, a clear message flushes
OnMessageOps ==
  {<<Lock("queue_lock"), Unlock("queue_lock")>>, FlushQueueOps}

\* on_websocket_closed
OnClosedOps ==
  {<<Lock("state_lock"), Write("connected"), Unlock("state_lock")>>}

\* on_websocket_connected
OnConnectedOps ==
  {<<Lock("state_lock"), Write("connected"), Unlock("state_lock")>>
     \o FlushQueueOps}

\* ws_thread: the loop condition; the cleanup after the event loop with and
\* without a handle, and the test of the running flag
WsThreadOps ==
  {<<Read("ws_thread_running")>>,
   <<Lock("state_lock"), Write("connected"), Unlock("state_lock"),
     Read("ws_thread_running")>>,
   <<Lock("state_lock"), Unlock("state_lock"), Read("ws_thread_running")>>}

\* output_thread: stream-start; the loop condition with the timing
\* initialisation or the wait for a clock; the initial buffering; the caps;
\* need_segment; the segment; the eos_sent check, the deadline wait and the
\* dequeue; the end-of-stream decision with the event or the timestamp
\* advance; the stamping; the push and the evaluation of its result
OutputThreadOps ==
  {<<Push>>,
   <<Read("output_thread_running"), Lock("output_lock"), Unlock("output_lock")>>,
   <<Read("output_thread_running"), Lock("output_lock")>>
     \o CondWait("output_lock") \o <<Unlock("output_lock")>>,
   <<Lock("queue_lock"), Unlock("queue_lock")>>,
   <<Lock("queue_lock")>> \o CondWait("queue_lock") \o <<Unlock("queue_lock")>>,
   <<Lock("state_lock"), Read("caps_ready"), Unlock("state_lock"), Push>>,
   <<Lock("state_lock"), Read("caps_ready"), Read("output_thread_running")>>
     \o CondWait("state_lock") \o <<Unlock("state_lock")>>,
   <<Lock("output_lock"), Unlock("output_lock")>>,
   <<Lock("state_lock"), Read("eos_sent"), Unlock("state_lock"),
     Lock("queue_lock"), Unlock("queue_lock")>>,
   <<Lock("state_lock"), Read("eos_sent"), Unlock("state_lock"),
     Lock("output_lock")>> \o CondWait("output_lock")
     \o <<Unlock("output_lock"), Read("output_thread_running"),
          Lock("queue_lock"), Unlock("queue_lock")>>,
   <<Lock("state_lock"), Read("connected"), Read("eos_sent"),
     Write("eos_sent"), Unlock("state_lock"), Push>>,
   <<Lock("state_lock"), Read("connected"), Unlock("state_lock"),
     Lock("output_lock"), Unlock("output_lock")>>,
   <<Push, Read("output_thread_running")>>}

\* finalize: the receive queue is freed under queue_lock
FinalizeOps == {<<Lock("queue_lock"), Unlock("queue_lock")>>}

\* chain
ChainOps ==
  {<<Lock("state_lock"), Read("connected"), Unlock("state_lock")>>}

\* sink_setcaps: the caps are set on the source pad, then caps_ready
SinkSetcapsOps ==
  {<<Push, Lock("state_lock"), Write("caps_ready"), Unlock("state_lock")>>}

\* change_state: NULL_TO_READY with the handshake seen in the connect wait,
\* with the timeout and connected read false after it, with the timeout and
\* connected read true after it (the second unlock); READY_TO_PAUSED;
\* PAUSED_TO_READY; READY_TO_NULL
ChangeStateOps ==
  {<<Write("ws_thread_running"), Lock("state_lock"), Read("connected")>>
     \o CondWait("state_lock")
     \o <<Read("connected"), Read("connected"), Unlock("state_lock")>>,
   <<Write("ws_thread_running"), Lock("state_lock"), Read("connected")>>
     \o CondWait("state_lock") \o <<Unlock("state_lock"), Read("connected")>>,
   <<Write("ws_thread_running"), Lock("state_lock"), Read("connected")>>
     \o CondWait("state_lock")
     \o <<Unlock("state_lock"), Read("connected"), Unlock("state_lock")>>,
   <<Lock("state_lock"), Write("eos_sent"), Write("caps_ready"),
     Unlock("state_lock"), Write("output_thread_running")>>,
   <<Write("output_thread_running"),
     Lock("queue_lock"), Unlock("queue_lock"),
     Lock("state_lock"), Unlock("state_lock"),
     Lock("output_lock"), Unlock("output_lock"), Write("caps_ready")>>,
   <<Write("ws_thread_running"), Lock("queue_lock"), Unlock("queue_lock"),
     Lock("state_lock"), Write("connected"), Write("eos_sent"),
     Unlock("state_lock")>>}

\* the code sections of a thread
SectionsOf(t) ==
  CASE t = "application" -> ChangeStateOps \cup FinalizeOps
    [] t = "worker" -> WsThreadOps \cup OnConnectedOps \cup OnMessageOps
                         \cup OnClosedOps
    [] t = "pacer" -> OutputThreadOps
    [] t = "streaming" -> ChainOps \cup SinkSetcapsOps

\* the mutexes a thread owns
HeldBy(t) == {l \in Locks : lk_owner[l] = t}

\* a thread enters one of its code sections
SectionBegin(t) ==
  /\ lk_run[t] = <<>>
  /\ \E ops \in SectionsOf(t) : lk_run' = [lk_run EXCEPT ![t] = ops]
  /\ UNCHANGED <<lk_owner, lk_dead>>

\* g_mutex_lock, and the re-lock that ends a wait: the thread goes on when
\* the mutex is free
MutexLock(t) ==
  /\ lk_run[t] # <<>> /\ Head(lk_run[t]).op = "lock"
  /\ lk_owner[Head(lk_run[t]).on] = "none"
  /\ lk_owner' = [lk_owner EXCEPT ![Head(lk_run[t]).on] = t]
  /\ lk_run' = [lk_run EXCEPT ![t] = Tail(@)]
  /\ UNCHANGED lk_dead

\* g_mutex_unlock by the owner, and the release that begins a wait
MutexUnlock(t) ==
  /\ lk_run[t] # <<>> /\ Head(lk_run[t]).op \in {"unlock", "wait"}
  /\ lk_owner[Head(lk_run[t]).on] = t
  /\ lk_owner' = [lk_owner EXCEPT ![Head(lk_run[t]).on] = "none"]
  /\ lk_run' = [lk_run EXCEPT ![t] = Tail(@)]
  /\ UNCHANGED lk_dead

\* g_mutex_unlock by a thread that does not own the mutex, which GLib leaves
\* undefined: the process is aborted, or the mutex is released whoever owns
\* it
MutexUnlockUnowned(t) ==
  /\ lk_run[t] # <<>> /\ Head(lk_run[t]).op = "unlock"
  /\ lk_owner[Head(lk_run[t]).on] # t
  /\ \/ lk_dead' = TRUE /\ UNCHANGED <<lk_owner, lk_run>>
     \/ /\ lk_owner' = [lk_owner EXCEPT ![Head(lk_run[t]).on] = "none"]
        /\ lk_run' = [lk_run EXCEPT ![t] = Tail(@)]
        /\ UNCHANGED lk_dead

\* a read or write of a lifecycle flag, or a push on the source pad
Access(t) ==
  /\ lk_run[t] # <<>> /\ Head(lk_run[t]).op \in {"read", "write", "push"}
  /\ lk_run' = [lk_run EXCEPT ![t] = Tail(@)]
  /\ UNCHANGED <<lk_owner, lk_dead>>

\* one step of one thread
ThreadStep ==
  /\ ~lk_dead
  /\ \E t \in Threads :
       \/ SectionBegin(t) \/ MutexLock(t) \/ MutexUnlock(t)
       \/ MutexUnlockUnowned(t) \/ Access(t)
  /\ UNCHANGED <<config, lifev, wsv, queuev, timingv, flagv, outv, envv,
                 chainv, obsv, out_first, refv, audiov>>

(* ---------------------------- specification --------------------------- *)
Observers == {"eos", "seg", "stale", "pts", "gap", "quiet", "run", "own",
              "order", "audio"}

\* the initial states, recording end-of-stream on the source port
Init == InitElement /\ observe = {"eos"}

\* the initial states, recording flushes, segments and the pushed buffers
InitFlush == InitElement /\ observe = {"seg", "stale", "pts"}

\* the initial states, recording the iterations since a timestamp reset
InitGap == InitElement /\ observe = {"gap", "stale"}

\* the initial states, recording the flushes and the events they push
InitClear == InitElement /\ observe = {"quiet"}

\* the initial states, recording the runs of enqueued frames
InitQueue == InitElement /\ observe = {"run"}

\* the initial states, recording where every received frame is
InitOwn == InitElement /\ observe = {"own"}

\* values of initial-reconnect-delay-ms: the property's minimum, default
\* and maximum
InitialDelays == {100, DEFAULT_INITIAL_RECONNECT_DELAY_MS, 5000}

\* values of max-backoff-ms: the property's minimum, default and maximum
MaxBackoffs == {1000, DEFAULT_MAX_BACKOFF_MS, 60000}

\* the initial states for the reconnect policy: every combination of the
\* delays, max-reconnects unlimited or MaxAttempts
InitBackoff ==
  /\ \E delay \in InitialDelays, maxb \in MaxBackoffs, maxrec \in {0, MaxAttempts} :
       InitElementWith(delay, maxb, maxrec)
  /\ observe = {}

Lifecycle ==
  \/ NullToReadyStart \/ NullToReadyWait \/ NullToReadyCheck
  \/ ReadyToPaused \/ PausedToReadyStop \/ PausedToReadyJoin
  \/ ReadyToNullStop \/ ReadyToNullQuit \/ ReadyToNullJoin

Worker ==
  \/ WsLoopCheck \/ WsRun \/ OnConnectedOk \/ OnConnectedFail
  \/ OnMessageBinary \/ OnMessageClear \/ OnClosed \/ OnError
  \/ FlushDrain \/ FlushReset \/ FlushEvents \/ FlushNeedSegment
  \/ WsAfterLoop

Pacer ==
  \/ OutTop \/ OutInitBuf \/ OutCaps \/ OutSegCheck \/ OutSegPush
  \/ OutPop \/ OutNoBuf \/ OutEos \/ OutStamp \/ OutPush

Environment == SetProperty \/ SetClock \/ SinkEventCaps \/ SinkEventEos

Next == Lifecycle \/ Worker \/ Pacer \/ Environment

\* the application moves the element between NULL and READY only: the
\* worker runs, the pacer is never started
NextBackoff ==
  \/ NullToReadyStart \/ NullToReadyWait \/ NullToReadyCheck
  \/ ReadyToNullStop \/ ReadyToNullQuit \/ ReadyToNullJoin
  \/ Worker

\* the initial states for the sink chain: nothing of the source port is
\* recorded, and no jitter reserve is configured (the pacer does not get
\* to it)
InitChain == InitElement /\ observe = {} /\ initial_buffer_count = 0

Chain == ChainCheck \/ ChainSend

\* the element with upstream presenting audio units, in a pipeline that is
\* not yet PLAYING: no clock is distributed, the pacer waits for it at the
\* top of its loop and takes no other step
NextChain ==
  \/ Lifecycle \/ Worker \/ OutTop
  \/ SetProperty \/ SinkEventCaps \/ SinkEventEos
  \/ Chain

\* the initial states for the inbound text frames: a uri is set and the
\* worker may connect, max-queue-size is MaxQueue, nothing of the source
\* port is recorded
InitText ==
  /\ InitElement /\ observe = {}
  /\ uri_set /\ reconnect_enabled
  /\ max_queue_size = MaxQueue

\* the worker, with every kind of text frame in place of the clear message
WorkerText ==
  \/ WsLoopCheck \/ WsRun \/ OnConnectedOk \/ OnConnectedFail
  \/ OnMessageBinary \/ OnMessageText \/ OnClosed \/ OnError
  \/ FlushDrain \/ FlushReset \/ FlushEvents \/ FlushNeedSegment
  \/ WsAfterLoop

\* the element receiving every kind of frame; the application leaves the
\* properties as they are and upstream sends no end-of-stream
NextText == Lifecycle \/ WorkerText \/ Pacer \/ SetClock \/ SinkEventCaps

\* the initial state for the mutexes: one configuration, no thread in a
\* code section, every mutex free
InitLocks ==
  /\ InitElement /\ observe = {}
  /\ uri_set /\ reconnect_enabled
  /\ max_queue_size = MaxQueue /\ initial_buffer_count = MaxInitBuf

\* the initial state for the stop of the pacer: one configuration
InitStop ==
  /\ InitElement /\ observe = {}
  /\ uri_set /\ reconnect_enabled
  /\ max_queue_size = MaxQueue /\ initial_buffer_count = MaxInitBuf

\* the element without property writes and without end-of-stream on the
\* sink pad
NextStop == Lifecycle \/ Worker \/ Pacer \/ SetClock \/ SinkEventCaps

\* the initial states, recording the kinds of event and buffer the pacer
\* pushes
InitOrder == InitElement /\ observe = {"order"}

\* the initial state for the audio parameters: one configuration, the
\* parameters followed
InitAudio ==
  /\ InitElement /\ observe = {"audio"}
  /\ uri_set /\ reconnect_enabled
  /\ max_queue_size = MaxQueue /\ initial_buffer_count = MaxInitBuf

\* the element with an application that sets the audio properties
NextAudio == NextStop \/ SetAudioProperty

\* the element with every value of initial-buffer-count
NextReserve == NextStop \/ SetInitialBufferCount

\* the element, observed for end-of-stream
Spec == Init /\ [][Next]_vars

\* the element, observed for flushes, segments and pushed buffers
SpecFlush == InitFlush /\ [][Next]_vars

\* the element, observed for the iterations since a timestamp reset
SpecGap == InitGap /\ [][Next]_vars

\* the element, observed for the flushes and the events they push
SpecClear == InitClear /\ [][Next]_vars

\* the element, with every kind of inbound frame
SpecText == InitText /\ [][NextText]_vars

\* the element, observed for the runs of enqueued frames
SpecQueue == InitQueue /\ [][Next]_vars

\* the element, observed for the place of every received frame
SpecOwn == InitOwn /\ [][Next]_vars

\* the element with a pacer that goes on whenever it can (its waits are
\* all timed, and gst_pad_push returns on the deactivated pad) and a join
\* that returns once the pacer has ended
SpecStop ==
  InitStop /\ [][NextStop]_vars /\ WF_vars(Pacer) /\ WF_vars(PausedToReadyJoin)

\* the steps the worker takes by itself: the loop condition, the start of
\* the event loop, the end of the handshake one way or the other, the flush,
\* and the code after the event loop; what the remote sends, and whether it
\* ever closes, is its own choice
WorkerProgress ==
  \/ WsLoopCheck \/ WsRun \/ OnConnectedOk \/ OnConnectedFail
  \/ FlushDrain \/ FlushReset \/ FlushEvents \/ FlushNeedSegment
  \/ WsAfterLoop

\* the element between NULL and READY with a worker that goes on whenever
\* it can and a READY_TO_NULL that goes on whenever it can
SpecQuit ==
  /\ InitStop /\ [][NextBackoff]_vars
  /\ WF_vars(WorkerProgress)
  /\ WF_vars(ReadyToNullQuit \/ ReadyToNullJoin)

\* the element, observed for the order of the pacer's pushes
SpecOrder == InitOrder /\ [][Next]_vars

\* the element with its audio parameters
SpecAudio == InitAudio /\ [][NextAudio]_vars

\* the element with an application that configures initial-buffer-count,
\* and a pacer that goes on whenever it can
SpecReserve == InitStop /\ [][NextReserve]_vars /\ WF_vars(Pacer)

\* the threads of the element at the level of their mutex operations
SpecLocks == InitLocks /\ [][ThreadStep]_vars

\* the worker and its reconnect policy, for every combination of the delays
SpecBackoff == InitBackoff /\ [][NextBackoff]_vars

\* the element with upstream traffic on the sink
SpecChain == InitChain /\ [][NextChain]_vars

(* ------------------------------- steps -------------------------------- *)
\* upstream calls the sink chain with a unit
ChainCallStep == tx_count' = tx_count + 1

\* the sink chain returns
ChainReturnStep ==
  (ChainCallStep /\ chain_pc' = "idle") \/ (chain_pc = "send" /\ chain_pc' = "idle")

\* the worker counts a failed attempt and computes its backoff
FailStep == reconnect_count' = reconnect_count + 1

\* change_state(NULL_TO_READY) is called
NullToReadyStep ==
  /\ state = "NULL" /\ life_pc = "idle"
  /\ life_pc' = "n2r_wait" \/ change_ret' = "FAILURE"

\* the handshake succeeds
HandshakeStep == ~connected /\ connected'

\* the pacer calls gst_pad_push
PushStep == out_pc = "push" /\ out_pc' # "push"

\* the pacer stamps the buffer it holds
StampStep == out_pc = "stamp" /\ out_pc' = "push"

\* an end-of-stream event is pushed on the source pad
EosStep == eos_count' = eos_count + 1

\* the worker is inside flush_queue
InFlush == ws_pc \in {"f_drain", "f_reset", "f_events", "f_seg"}

\* the worker will make no further connection attempt
WorkerGone ==
  \/ ws_pc \in {"off", "done"}
  \/ ws_pc = "check" /\ ~WsLoopCond
  \/ /\ ws_pc \in {"connecting", "open"} /\ loop = "stopped"
     /\ \/ ~ws_thread_running
        \/ ~reconnect_enabled
        \/ max_reconnects > 0 /\ reconnect_count + 1 >= max_reconnects

(* ------------------------------- claims ------------------------------- *)
\* C1: in every reachable state the receive queue holds at most
\* max-queue-size frames.  Violated: set_property stores a smaller
\* max-queue-size and leaves a longer queue as it is.
C1_QueueBounded == Len(recv_queue) <= max_queue_size

\* C2: within one activation the pacer pushes end-of-stream on the source
\* port at most once.
C2_EosAtMostOnce == eos_count <= 1

\* C2 witness: end-of-stream was pushed once, and the worker has connected
\* again in the same activation.
C2_Witness == eos_count = 1 /\ state = "PAUSED" /\ connected /\ reconnect_count > 0

\* C3: end-of-stream is pushed only when the worker will make no further
\* connection attempt.  Violated: the pacer pushes it whenever the queue is
\* empty and connected is false, also before the first handshake and while
\* the worker still retries.
C3_EosOnlyWhenGone == [][EosStep => WorkerGone]_vars

\* C4: when the remote has closed, the receive queue is empty at the moment
\* end-of-stream is pushed (every frame queued at close time was pushed
\* before).  Violated: a frame and the close arrive between the pacer's
\* dequeue and its check of connected.
C4_QueueEmptyAtEos ==
  [][(EosStep /\ ws_pc = "open" /\ loop = "stopped" /\ ~connected)
       => recv_queue = <<>>]_vars

\* C5: after end-of-stream was pushed, no audio unit is pushed in that
\* activation.
C5_NoPushAfterEos == [][eos_count > 0 => ~PushStep]_vars

\* C5 witness: end-of-stream was pushed, the worker has reconnected and a
\* new frame is queued, in the same activation.
C5_Witness ==
  eos_count = 1 /\ state = "PAUSED" /\ life_pc = "idle" /\ connected
  /\ recv_queue # <<>>

\* C6: after a flush pushed flush-start and flush-stop, a segment event is
\* pushed before the next audio unit.  Violated: the pacer is past its
\* need_segment check when the flush runs.
C6_SegmentBeforeFirstBuffer ==
  [][(PushStep /\ ws_pc # "f_seg") => seg_since_flush]_vars

\* C7: no frame received before a flush is pushed after that flush has
\* completed.  Violated: the pacer holds a frame it dequeued before the
\* flush and pushes it afterwards.
C7_NoStalePush == [][PushStep => buffer.id > stale_upto]_vars

\* C8: every pushed audio unit carries pts = base_timestamp + k *
\* frame_duration, k >= 0, and between two segment events the pts never
\* decreases.  Violated: a flush resets next_timestamp after the pacer's
\* need_segment check.
C8_PtsMonotone ==
  [][PushStep =>
       /\ buffer.pts >= last_pts
       /\ \E k \in 0..MaxTs : buffer.pts = base_timestamp + k * frame_duration]_vars

\* the receive queue holds only frames received after the last completed flush
QueueFresh == \A i \in 1..Len(recv_queue) : recv_queue[i] > stale_upto

\* the pacer stamps the first audio unit since a clear, a frame received
\* after the clear was processed
FirstStampAfterClear ==
  StampStep /\ reset_by = "clear" /\ ~InFlush /\ buffer.id > stale_upto

\* C9 as stated: after a clear the queue holds only later frames, and the
\* first audio unit after the clear carries pts = base_timestamp + 0 however
\* many empty pacer iterations elapsed.  Violated: each empty iteration
\* advances next_timestamp.
C9_FirstPtsIsBase ==
  [][QueueFresh' /\ (FirstStampAfterClear => buffer'.pts = base_timestamp)]_vars

\* C9 as amended: after a clear the queue holds only later frames, and the
\* first audio unit stamped after the clear carries pts = base_timestamp +
\* n * frame_duration, n the number of pacer iterations that found the
\* queue empty since the clear reset next_timestamp.
C9_FirstPtsAfterClear ==
  [][QueueFresh' /\ (FirstStampAfterClear =>
        buffer'.pts = base_timestamp + gap_iters * frame_duration)]_vars

\* C9 witness: a clear was processed, the pacer found the queue empty at
\* least once, and now holds a later frame to stamp.
C9_Witness ==
  /\ out_pc = "stamp" /\ reset_by = "clear" /\ ~InFlush
  /\ buffer.id > stale_upto /\ stale_upto > 0
  /\ gap_iters > 0 /\ next_timestamp < TsCap

\* C10: end-of-stream on the sink is absorbed: nothing is pushed on the
\* source, and eos_sent, connected, the receive queue and the timing state
\* stay as they are.
C10_SinkEosAbsorbed ==
  [][(sink_eos' /\ ~sink_eos) =>
       UNCHANGED <<eos_count, eos_sent, connected, recv_queue, rx_count,
                   base_timestamp, next_timestamp, first_timestamp_set,
                   need_segment, out_pc>>]_vars

\* C10 witness: the sink has seen end-of-stream while the element is
\* connected and running, and no end-of-stream was pushed on the source.
C10_Witness ==
  sink_eos /\ state = "PAUSED" /\ connected /\ eos_count = 0 /\ ~eos_sent
  /\ out_pc \notin {"off", "done"}

\* the delays of the documented sequence, by the number of failed attempts
DefaultDelays == <<1000, 2000, 4000, 8000, 16000, 30000, 30000>>

ExpectedDelay(k) ==
  IF k = 0 THEN 0 ELSE IF k <= Len(DefaultDelays) THEN DefaultDelays[k] ELSE 30000

\* C11: with the default delays the backoff after the k-th consecutive
\* failed attempt is the k-th of 1000, 2000, 4000, 8000, 16000, 30000,
\* 30000, ... ms.
C11_DefaultBackoffSequence ==
  (initial_reconnect_delay_ms = 1000 /\ max_backoff_ms = 30000)
    => current_backoff_ms = ExpectedDelay(reconnect_count)

\* C11 witness: seven attempts have failed with the default delays, and the
\* backoff is clamped at 30000 ms.
C11_Witness ==
  /\ initial_reconnect_delay_ms = 1000 /\ max_backoff_ms = 30000
  /\ reconnect_count = 7 /\ current_backoff_ms = 30000

C13_BackoffMonotoneBounded ==
  [][FailStep =>
       /\ current_backoff_ms' >= current_backoff_ms
       /\ current_backoff_ms' <= max_backoff_ms]_vars

\* C14: with max-reconnects = N > 0 the worker stops for good only at a
\* failure before which N attempts had already failed, so that after N
\* refused handshakes one more attempt is made.  Violated: the loop test
\* follows the increment, the worker stops at the N-th failure.
C14_StopOnlyAfterMaxRetries ==
  [][(FailStep /\ reconnect_enabled /\ max_reconnects > 0 /\ ~WsLoopCond')
       => reconnect_count >= max_reconnects]_vars

\* C15: with reconnect-enabled = false the worker still makes the initial
\* connection attempt: its first loop test, when the element is not being
\* shut down, leads to an attempt.  Violated: the loop test fails on
\* reconnect_enabled and the worker ends without any attempt.
C15_InitialAttemptMade ==
  [][(ws_pc = "check" /\ reconnect_count = 0 /\ ws_thread_running
        /\ ws_pc' # "check")
       => ws_pc' = "run"]_vars

C17_HandshakeKeepsCounters ==
  [][/\ HandshakeStep => UNCHANGED <<reconnect_count, current_backoff_ms>>
     /\ ~NullToReadyStep => reconnect_count' >= reconnect_count
     /\ (ws_pc = "open" /\ ws_pc' = "check") => FailStep]_vars

\* C17 witness: after a failed attempt the handshake has succeeded, and the
\* counters still hold the failure.
C17_Witness ==
  /\ connected /\ ws_pc = "open" /\ loop = "running"
  /\ reconnect_count > 0 /\ current_backoff_ms > 0

\* C18: the sink chain returns OK for every unit; without a connection
\* (connected false or no handle) it sends nothing, releases the unit and
\* leaves the connection state, the receive queue and the timing state as
\* they are.
C18_ChainAlwaysOk ==
  [][/\ ChainReturnStep => chain_ret' = "OK"
     /\ (ChainCallStep /\ (~connected \/ ~ws_conn))
          => /\ sent' = sent /\ tx_dropped' = tx_dropped + 1
             /\ chain_pc' = "idle" /\ chain_buffer' = NoUnit
             /\ UNCHANGED <<wsv, queuev, timingv, flagv>>]_vars

\* C18 witness: one unit was sent while connected, another was released
\* without a connection while frames wait in the receive queue, and the
\* chain returned OK.
C18_Witness ==
  /\ tx_dropped > 0 /\ sent # <<>> /\ recv_queue # <<>>
  /\ chain_pc = "idle" /\ chain_ret = "OK"

\* the sink chain sends the unit it holds
ChainSendStep == chain_pc = "send" /\ chain_pc' = "idle"

\* the frame that carries exactly the bytes of unit u
FrameFor(u) == [payload |-> u.id, length |-> u.size]

\* the frames are in the order of the chain calls, none twice
InCallOrder(frames) ==
  \A i, j \in 1..Len(frames) : i < j => frames[i].payload < frames[j].payload

C20_NoUriFails ==
  [][(NullToReadyStep /\ ~uri_set)
       => /\ change_ret' = "FAILURE" /\ state' = "NULL"
          /\ ~ws_thread_running /\ ~ws_thread_running'
          /\ ws_pc' = "off"]_vars

\* C20 witness: NULL_TO_READY has failed on the unset uri.
C20_Witness ==
  /\ ~uri_set /\ change_ret = "FAILURE" /\ state = "NULL"
  /\ ~ws_thread_running /\ ws_pc = "off"

\* change_state(NULL_TO_READY) returns after the connect wait
NullToReadyReturnStep ==
  /\ life_pc \in {"n2r_wait", "n2r_check"}
  /\ life_pc' \notin {"n2r_wait", "n2r_check"}

\* C21: NULL_TO_READY with uri set returns success, and the element is in
\* READY, both when the handshake completes within the connect wait and when
\* the wait times out.  Violated: the handshake completes between the unlock
\* that follows the timeout and the unlocked read of connected; state_lock is
\* unlocked twice and the process is aborted.
C21_NullToReadySucceeds ==
  [][NullToReadyReturnStep => (change_ret' = "SUCCESS" /\ state' = "READY")]_vars

\* the worker leaves position pc of flush_queue, the process still alive
FlushLeaves(pc) == ws_pc = pc /\ ws_pc' # pc /\ life_pc' # "aborted"

\* the two events of one flush, in the order they are pushed
FlushPair == <<"flush-start", "flush-stop">>

\* C22: processing a clear message performs, in this order: the receive
\* queue is emptied; next_timestamp is set to 0 and first_timestamp_set
\* cleared; exactly one flush-start and then one flush-stop are pushed on
\* the source pad; need_segment is set to true.  Each of the four steps does
\* its part and nothing of the others.
C22_ClearSteps ==
  [][flush_origin = "clear" =>
       /\ FlushLeaves("f_drain") =>
            /\ ws_pc' = "f_reset" /\ recv_queue' = <<>>
            /\ UNCHANGED <<timingv, flush_log>>
       /\ FlushLeaves("f_reset") =>
            /\ ws_pc' = "f_events"
            /\ next_timestamp' = 0 /\ ~first_timestamp_set'
            /\ UNCHANGED <<recv_queue, need_segment, flush_log>>
       /\ FlushLeaves("f_events") =>
            /\ ws_pc' = "f_seg" /\ flush_log' = flush_log \o FlushPair
            /\ UNCHANGED <<recv_queue, timingv>>
       /\ FlushLeaves("f_seg") =>
            /\ ws_pc' = "open" /\ need_segment'
            /\ UNCHANGED <<recv_queue, next_timestamp, first_timestamp_set,
                           flush_log>>]_vars

\* C22 witness: a clear message is being processed; it found frames in the
\* queue and an advanced next_timestamp, has emptied the queue, reset the
\* timestamps and pushed its two events, and is about to set need_segment,
\* which the pacer has cleared before.
C22_Witness ==
  /\ flush_origin = "clear" /\ ws_pc = "f_seg"
  /\ flush_log = FlushPair /\ recv_queue = <<>> /\ rx_count > 0
  /\ next_timestamp = 0 /\ ~first_timestamp_set /\ ~need_segment
  /\ timing_initialized

\* a text frame holding a JSON object whose type is "clear"
IsClearObject(m) ==
  m.type = "TEXT" /\ m.wellformed /\ m.root = "object" /\ m.member = "clear"

\* a frame that is not binary is delivered
TextStep == rx_msg' # rx_msg

\* C23: an inbound text frame other than a JSON object whose type is "clear"
\* (malformed, not an object, type missing, not a string or different) and
\* an inbound frame that is neither text nor binary leave the receive queue,
\* the timing state, need_segment and the connection state as they are, and
\* the worker does not enter the flush, so no event is pushed on the source.
C23_OtherFramesIgnored ==
  [][(TextStep /\ ~IsClearObject(rx_msg')) =>
       UNCHANGED <<recv_queue, rx_count, timingv, connected, ws_conn, ws_pc,
                   loop, flush_origin, ws_thread_running, reconnect_count,
                   eos_sent, eos_count, flush_log>>]_vars

\* C23 witness: a frame that is not the clear message was delivered while
\* connected, with a frame in the receive queue and next_timestamp advanced,
\* which are still there; before it a clear message was delivered.
C23_Witness ==
  /\ rx_msg # NoMessage /\ ~IsClearObject(rx_msg)
  /\ rx_msg.member = "other"
  /\ ws_pc = "open" /\ connected /\ recv_queue # <<>> /\ next_timestamp > 0

\* a binary frame is enqueued
EnqueueStep == rx_count' = rx_count + 1

\* C24: on every successful handshake, the first and each later one, the
\* worker publishes the handle and sets connected (which the connect wait
\* of NULL_TO_READY tests), and then runs the flush; no frame is enqueued
\* before the flush has ended, and when it ends the receive queue is empty
\* and need_segment is true.
C24_FlushOnHandshake ==
  [][/\ HandshakeStep =>
          /\ ws_conn' /\ connected'
          /\ ws_pc' = "f_drain" /\ flush_origin' = "connect"
     /\ EnqueueStep => (~InFlush /\ connected /\ ws_conn)
     /\ (FlushLeaves("f_seg") /\ flush_origin = "connect") =>
          /\ ws_pc' = "open" /\ recv_queue' = <<>> /\ need_segment'
          /\ connected' /\ ws_conn']_vars

\* C24 witness: after a failed session the handshake has succeeded again; the
\* handle is published and the flush is about to empty a queue that still
\* holds frames of the earlier connection.
C24_Witness ==
  /\ ws_pc = "f_drain" /\ flush_origin = "connect" /\ connected /\ ws_conn
  /\ reconnect_count > 0 /\ recv_queue # <<>> /\ ~need_segment

\* the last k elements of sequence q
LastN(q, k) == SubSeq(q, Len(q) - k + 1, Len(q))

\* the last k frames received, in arrival order, when top frames arrived
LastFrames(k, top) == [i \in 1..k |-> top - k + i]

\* the worker is in its event loop with a connection, and the remote has a
\* frame to send
FramePending == ws_pc = "open" /\ loop = "running" /\ rx_count < MaxFrames

Held == IF buffer = NoBuffer THEN <<>> ELSE <<buffer.id>>

\* the frames that are somewhere: pushed, held by the pacer, or queued
Places == pushed \o Held \o recv_queue

\* C26: the frames pushed on the source pad are a subsequence of the inbound
\* binary frames in arrival order (none twice, none before an earlier one),
\* and every received frame is in exactly one place: pushed, held by the
\* pacer, in the receive queue, or released unpushed.
C26_SingleOwnership ==
  /\ \A i, j \in 1..Len(Places) : i < j => Places[i] < Places[j]
  /\ \A i \in 1..Len(Places) : Places[i] \in 1..rx_count
  /\ Len(Places) + dropped = rx_count

\* C26 witness: of the frames received the first was released unpushed (by
\* drop-oldest or a flush) and the second was pushed.
C26_Witness ==
  /\ dropped = 1 /\ pushed = <<2>> /\ rx_count = 2

\* the events of k flushes
RECURSIVE Pairs(_)
Pairs(k) == IF k <= 0 THEN <<>> ELSE Pairs(k - 1) \o FlushPair

\* C27: two consecutive flushes, with no inbound frame and no step of the
\* pacer from the start of the first to the end of the second, leave the
\* state one flush leaves (queue empty, next_timestamp = 0,
\* first_timestamp_set false, need_segment true), and each of them has
\* pushed its own flush-start and flush-stop.
C27_FlushIdempotent ==
  [][(FlushLeaves("f_seg") /\ quiet' >= 1) =>
       /\ recv_queue' = <<>> /\ next_timestamp' = 0
       /\ ~first_timestamp_set' /\ need_segment'
       /\ flush_log' = Pairs(quiet')]_vars

\* C27 witness: two flushes have run one after the other while the pacer
\* runs, nothing in between, and two pairs of events were pushed.
C27_Witness ==
  /\ quiet = 2 /\ flush_log = FlushPair \o FlushPair /\ ws_pc = "open"
  /\ recv_queue = <<>> /\ next_timestamp = 0 /\ ~first_timestamp_set
  /\ need_segment /\ state = "PAUSED" /\ timing_initialized /\ rx_count > 0

\* the place of a mutex in the order state_lock, queue_lock, output_lock
LockRank(l) ==
  CASE l = "state_lock" -> 1 [] l = "queue_lock" -> 2 [] l = "output_lock" -> 3

\* the next operation of a thread, if it is in a code section
NextOp(t) ==
  IF lk_run[t] = <<>> THEN [op |-> "none", on |-> "none"] ELSE Head(lk_run[t])

\* a thread waits for a mutex that another thread owns
Blocked(t) == NextOp(t).op = "lock" /\ lk_owner[NextOp(t).on] # "none"

\* a set of threads that wait for each other's mutexes
Deadlocked(S) ==
  S # {} /\ \A t \in S : Blocked(t) /\ lk_owner[NextOp(t).on] \in S

\* C28: a thread that takes a mutex owns no mutex of the same or a later
\* place in the order state_lock, queue_lock, output_lock; the pacer does
\* not own queue_lock when it takes output_lock, nor the worker state_lock
\* when it takes queue_lock; a thread that pushes on the source pad owns no
\* mutex; and no set of threads waits for each other's mutexes.
C28_LockOrder ==
  /\ \A t \in Threads :
       /\ NextOp(t).op = "lock" =>
            \A l \in HeldBy(t) : LockRank(l) < LockRank(NextOp(t).on)
       /\ NextOp(t).op = "push" => HeldBy(t) = {}
  /\ NextOp("pacer") = Lock("output_lock") => "queue_lock" \notin HeldBy("pacer")
  /\ NextOp("worker") = Lock("queue_lock") => "state_lock" \notin HeldBy("worker")
  /\ \A S \in SUBSET Threads : ~Deadlocked(S)

\* the three mutexes are owned by three threads, the fourth waits for one
\* of them, and the worker is in flush_queue before its two pushes
C28_Witness ==
  /\ lk_owner = [l \in Locks |->
                  CASE l = "state_lock" -> "application"
                    [] l = "queue_lock" -> "pacer"
                    [] l = "output_lock" -> "worker"]
  /\ Blocked("streaming")
  /\ Len(lk_run["worker"]) > 1 /\ lk_run["worker"][2] = Push

\* the mutex that guards a lifecycle flag: state_lock for the flags that
\* the code sets under it, any mutex for the two running flags
Guarded(t, f) ==
  IF f \in {"eos_sent", "caps_ready", "connected"}
  THEN "state_lock" \in HeldBy(t)
  ELSE HeldBy(t) # {}

\* C29: a thread that reads or writes one of the lifecycle flags eos_sent,
\* caps_ready, connected, output_thread_running and ws_thread_running owns
\* the mutex that guards the flag.
C29_FlagsUnderMutex ==
  \A t \in Threads :
    NextOp(t).op \in {"read", "write"} => Guarded(t, NextOp(t).on)
\* the places of the pacer in output_thread: the loop condition with the
\* clock polling, the initial jitter reserve, the caps wait, the segment,
\* the deadline wait with the dequeue, and the steady-state loop
PacerPhases ==
  {"top", "initbuf", "caps", "segcheck", "segpush", "pop", "nobuf", "eos",
   "stamp", "push", "done"}

\* next_timestamp is at the bound of the model, where the pacer's advance
\* is not modelled
TsCapped == next_timestamp >= TsCap

\* the transition has returned and the pacer is joined
Stopped == state = "READY" /\ life_pc = "idle" /\ out_pc = "off"

\* C30: once PAUSED_TO_READY has cleared output_thread_running and
\* broadcast the three conditions, the pacer ends from whichever place it
\* is in and the join returns with the element in READY; when the pacer is
\* joined it pushes nothing more and next_timestamp is 0.
C30_StopCompletes ==
  /\ \A ph \in PacerPhases :
       (life_pc = "p2r_join" /\ out_pc = ph) ~> (Stopped \/ TsCapped)
  /\ [][life_pc = "p2r_join" /\ life_pc' # "p2r_join" =>
         Stopped' /\ next_timestamp' = 0 /\ change_ret' = "SUCCESS"]_vars
  /\ [](out_pc = "off" => next_timestamp = 0 /\ ~ENABLED Pacer)

\* the element is back in READY after a stop that found the pacer in its
\* steady-state loop, connected and with no end-of-stream sent
C30_Witness ==
  /\ Stopped /\ ~output_thread_running /\ next_timestamp = 0
  /\ timing_initialized /\ ~initial_buffering /\ caps_pushed /\ segment_pushed
  /\ connected /\ ~eos_sent /\ rx_count > 0
\* the places of the worker in ws_thread
WorkerPoints == {"check", "run", "connecting", "open", "f_drain", "f_reset",
                 "f_events", "f_seg", "done"}

\* C31: once READY_TO_NULL has cleared ws_thread_running, the worker leaves
\* its connect loop and the join returns with the element in NULL, wherever
\* in its loop the worker is when the flag is cleared.
C31_QuitCompletes ==
  \A pc \in WorkerPoints :
    (life_pc = "r2n_quit" /\ ws_pc = pc) ~> (state = "NULL" /\ life_pc = "idle")
\* the element is in NULL and no state change is in progress
Inactive == state = "NULL" /\ life_pc = "idle"

\* C32: when the element is in NULL after READY_TO_NULL has returned, the
\* receive queue is empty, connected and eos_sent are false, no connection
\* handle is published, the worker is gone and no frame can be enqueued.
C32_CleanAfterStop ==
  Inactive =>
    /\ recv_queue = <<>>
    /\ ~connected /\ ~eos_sent /\ ~ws_conn
    /\ ws_pc = "off" /\ ~ws_thread_running
    /\ ~ENABLED OnMessageBinary

\* READY_TO_NULL has returned after a session in which frames were received
C32_Witness ==
  Inactive /\ change_ret = "SUCCESS" /\ rx_count > 0 /\ reconnect_count > 0
\* the place of kind k in out_first, 0 when it was not pushed
FirstAt(k) ==
  IF \E i \in 1..Len(out_first) : out_first[i] = k
    THEN CHOOSE i \in 1..Len(out_first) : out_first[i] = k
    ELSE 0

\* the pacer pushes its caps event
CapsPushStep == FirstAt("caps") = 0 /\ FirstAt("caps")' # 0

\* C33: in every activation the first thing the pacer pushes is
\* stream-start; a buffer is pushed only after stream-start, then caps,
\* then a segment have been pushed in the activation, in that order; and
\* the caps event is pushed only when the source pad has caps.
C33_EventOrder ==
  /\ [](out_first # <<>> => out_first[1] = "stream-start")
  /\ [](FirstAt("buffer") # 0 =>
          /\ FirstAt("stream-start") = 1
          /\ FirstAt("caps") # 0 /\ FirstAt("segment") # 0
          /\ FirstAt("stream-start") < FirstAt("caps")
          /\ FirstAt("caps") < FirstAt("segment")
          /\ FirstAt("segment") < FirstAt("buffer"))
  /\ [](FirstAt("segment") # 0 =>
          FirstAt("caps") # 0 /\ FirstAt("caps") < FirstAt("segment"))
  /\ [][CapsPushStep => src_caps]_vars

\* the pacer has pushed a buffer in the activation
C33_Witness ==
  out_first = <<"stream-start", "caps", "segment", "buffer">> /\ state = "PAUSED"
\* the pacer has pushed something after its stream-start in the activation
PushedAfterStart == Len(out_first) > 1

\* the pacer leaves the initial jitter reserve
ReserveLeftStep == state = "PAUSED" /\ initial_buffering /\ ~initial_buffering'

Gone ==
  /\ state = "PAUSED" /\ life_pc = "idle"
  /\ out_pc \notin {"off", "done"}
  /\ clock /\ src_caps
  /\ ws_pc = "done" /\ ~connected

\* C35: when the pacer runs with a clock and caps and the connection is
\* gone for good, the pacer comes to send end-of-stream (unless the
\* application stops the element or downstream ends the pacer first),
\* however many frames were received before.
C35_EosWhenGone ==
  Gone ~> \/ eos_sent
          \/ out_pc = "done"
          \/ state # "PAUSED" \/ life_pc # "idle"
          \/ TsCapped
\* the reference count of the object the chain function's handle points to
ChainRefs == IF chain_handle = "current" THEN handle_refs ELSE old_refs

\* chain takes its handle
HandleTakenStep == chain_handle = "none" /\ chain_handle' # "none"

\* C36: while a chain call uses a connection handle, the object has the
\* reference the call took (two references while the worker still
\* publishes it, one after the worker's teardown), so it is not freed under
\* the call; the handle is taken only when connected is true and a handle
\* is published; and a published handle always has the worker's reference.
C36_ChainOwnsReference ==
  /\ [](chain_pc = "send" =>
          /\ chain_handle # "none"
          /\ ChainRefs >= 1
          /\ chain_handle = "current" => ws_conn /\ handle_refs = 2
          /\ chain_handle = "old" => old_refs = 1)
  /\ [](chain_pc = "idle" => chain_handle = "none" /\ old_refs = 0)
  /\ [](ws_conn => handle_refs >= 1)
  /\ [][HandleTakenStep =>
         connected /\ ws_conn /\ handle_refs' = handle_refs + 1]_vars

\* the worker has torn the connection down while a chain call uses it
C36_Witness ==
  chain_pc = "send" /\ chain_handle = "old" /\ old_refs = 1 /\ ~ws_conn
\* C37: while caps_ready stays set and upstream sends no new caps, the
\* sample rate, the channels, the bytes per sample, the frame duration and
\* the frame size in bytes do not change, whatever the application sets.
C37_ParametersFrozen ==
  [][(caps_ready /\ caps_ready' /\ ~SinkEventCaps) => UNCHANGED audiov]_vars
\* on_websocket_closed or on_websocket_error has run: the open connection's
\* event loop is quit by the worker itself
ClosedOrErrorStep ==
  /\ ws_pc = "open" /\ loop = "running" /\ loop' = "stopped"
  /\ life_pc' = life_pc

\* the handler has returned and the outer loop has not yet gone on
HandlerReturned == ws_pc = "open" /\ loop = "stopped" /\ life_pc = "idle"

\* C38: when the worker has handled a close or an error of the connection,
\* connected is false, and a chain call that starts before the outer loop
\* goes on releases its unit unsent.
C38_DisconnectedAfterHandler ==
  [][/\ ClosedOrErrorStep => ~connected'
     /\ (HandlerReturned /\ ChainCallStep) =>
          chain_pc' = "idle" /\ tx_dropped' = tx_dropped + 1]_vars
\* the connection is open and the worker runs its event loop
ConnectionUp == connected /\ ws_pc = "open" /\ loop = "running"

\* the pacer is in its initial jitter reserve with a clock, the connection
\* is up, and the receive queue holds as many frames as it can: whatever
\* arrives further, it holds max-queue-size frames
ReserveWithFullQueue ==
  /\ state = "PAUSED" /\ life_pc = "idle"
  /\ clock /\ initial_buffering /\ out_pc \notin {"off", "done"}
  /\ ConnectionUp
  /\ Len(recv_queue) = max_queue_size

\* C39: with the connection up and the receive queue kept full by the
\* arriving frames, the pacer comes to leave its initial jitter reserve
\* (unless the element is stopped, the connection ends or the queue is
\* flushed), for every initial-buffer-count and max-queue-size.
C39_ReserveIsLeft ==
  ReserveWithFullQueue ~>
    \/ ~initial_buffering
    \/ state # "PAUSED" \/ life_pc # "idle"
    \/ ~ConnectionUp
    \/ Len(recv_queue) < max_queue_size

\* the lifecycle thread holds state_lock: from the g_mutex_lock before the
\* connect wait to the unlock after the timeout or after the loop
LifecycleHoldsStateLock == life_pc = "n2r_wait"

\* the g_mutex_unlock(&state_lock) calls that a step of the connect wait
\* executes: the one that ends the wait (after the timeout, or after the
\* loop has seen connected), and the one under "if (self->connected)" when
\* the timeout path reads connected true
ConnectWaitUnlocks ==
  IF life_pc = "n2r_wait" /\ life_pc' # "n2r_wait" THEN 1
  ELSE IF life_pc = "n2r_check" /\ life_pc' # "n2r_check" /\ connected THEN 1
  ELSE 0

\* C40: in the connect wait of NULL_TO_READY the lifecycle thread unlocks
\* state_lock only while it holds it, so exactly once on every path.
\* Violated: the worker sets connected between the unlock that follows the
\* timeout and the test of connected, and the lifecycle thread unlocks
\* state_lock a second time without holding it.
C40_UnlockOnlyWhenHeld ==
  [][ConnectWaitUnlocks > 0 => LifecycleHoldsStateLock]_vars
====
